---- MODULE Spec2Model ----
(***************************************************************************)
(* Combat simulation core of arcane-survivors: enemy registry and spatial  *)
(* hash (EnemyManager), projectile registry and collision resolution       *)
(* (ProjectileManager), player contact damage (Game.checkCollisions,       *)
(* Player.takeDamage) and the weapon stat / cooldown model (Weapon).       *)
(*                                                                         *)
(* Numbers.  Lengths are integer world units and times integer             *)
(* milliseconds; a JavaScript double that is not an integer is truncated   *)
(* toward zero where the code stores it (TDiv).  Unit vectors are kept in  *)
(* thousandths.  Percentages stand for the fractional multipliers.         *)
(***************************************************************************)
EXTENDS Integers, Sequences, FiniteSets, TLC

(***************************************************************************)
(* Bounds of the model                                                     *)
(***************************************************************************)
MaxTicks == 5          \* Game.update calls explored in one run
MaxSpawns == 2         \* ProjectileManager.spawn calls explored in one run
MaxBossSpawns == 1
MaxKills == 1
MaxUpgrades == 4
MaxWeaponTicks == 5
MaxChainFires == 2
MaxChainTicks == 2
MaxBeamTicks == 6
MaxGridTicks == 3     \* boss / mini-boss spawn calls explored in one run

(***************************************************************************)
(* Arithmetic helpers                                                      *)
(***************************************************************************)
Abs(a) == IF a < 0 THEN -a ELSE a

Max2(a, b) == IF a >= b THEN a ELSE b

Min2(a, b) == IF a <= b THEN a ELSE b

\* JavaScript number -> stored integer: division truncated toward zero
TDiv(a, b) == IF a >= 0 THEN a \div b ELSE -((-a) \div b)

\* Math.ceil(a / b) for b > 0
CeilDiv(a, b) == -((-a) \div b)

RECURSIVE SqrtSearch(_, _, _)
SqrtSearch(n, lo, hi) ==
    IF lo >= hi THEN lo
    ELSE LET mid == (lo + hi + 1) \div 2
         IN IF mid * mid <= n THEN SqrtSearch(n, mid, hi)
            ELSE SqrtSearch(n, lo, mid - 1)

\* floor(Math.sqrt(n))
ISqrt(n) == SqrtSearch(n, 0, Min2(n, 46340))

Range(s) == { s[i] : i \in DOMAIN s }

(***************************************************************************)
(* Program constants                                                       *)
(***************************************************************************)
cellSize == 100                 \* EnemyManager.cellSize
FixedDeltaTime == 17            \* Game.fixedDeltaTime, 1000 / 60 ms, rounded
PlayerRadius == 14              \* Player.radius
ContactQueryMargin == 50        \* Game.checkCollisions: player.radius + 50
ProjectileQueryMargin == 50     \* checkEnemyCollisions: max(size,w,h) + 50
BoomerangSnapRadius == 30       \* updateProjectile: dist < 30
maxProjectiles == 1000          \* ProjectileManager.maxProjectiles

\* GAME_CONFIG and ENEMIES are defined in data/config.js, which is not among
\* the sources; the entries read by the code modelled here are given
\* representative values.
GAME_CONFIG ==
    [mapWidth |-> 4000, mapHeight |-> 4000,
     spawning |-> [maxEnemies |-> 6, spawnDistance |-> 600,
                   baseSpawnInterval |-> 1000, minSpawnInterval |-> 200],
     player |-> [invincibilityTime |-> 34, baseMaxHp |-> 100],
     bossSpawnTime |-> 900000, difficultyScaleInterval |-> 180000,
     difficultyTiers |-> << [name |-> "hard", hpMult |-> 150, dmgMult |-> 150,
                             goldMult |-> 150],
                            [name |-> "nightmare", hpMult |-> 200, dmgMult |-> 200,
                             goldMult |-> 200] >>]

ENEMIES ==
    [zombie |-> [radius |-> 12, hp |-> 10, damage |-> 10, speed |-> 60, xp |-> 1,
                 knockbackResist |-> 0, resurrect |-> FALSE]]

mapWidth == GAME_CONFIG.mapWidth                                \* Game.mapWidth
mapHeight == GAME_CONFIG.mapHeight                              \* Game.mapHeight
maxEnemies == GAME_CONFIG.spawning.maxEnemies                   \* EnemyManager.maxEnemies
spawnDistance == GAME_CONFIG.spawning.spawnDistance             \* EnemyManager.spawnDistance
baseSpawnInterval == GAME_CONFIG.spawning.baseSpawnInterval     \* EnemyManager.baseSpawnInterval
minSpawnInterval == GAME_CONFIG.spawning.minSpawnInterval
invincibilityTime == GAME_CONFIG.player.invincibilityTime       \* Player.invincibilityDuration
baseMaxHp == GAME_CONFIG.player.baseMaxHp                       \* Player.baseMaxHp
bossSpawnTime == GAME_CONFIG.bossSpawnTime
difficultyScaleInterval == GAME_CONFIG.difficultyScaleInterval
difficultyTiers == GAME_CONFIG.difficultyTiers                  \* multipliers in percent

GameStates == {"menu", "playing", "paused", "levelUp", "chest", "gameOver", "victory"}

VARIABLES
    state,            \* Game.state
    gameTime,         \* Game.gameTime
    killCount,        \* Game.killCount
    player,           \* Game.player
    enemies,          \* EnemyManager.enemies, in registry order
    enemyIdCounter,   \* module-level enemyIdCounter
    spawnTimer,       \* EnemyManager.spawnTimer
    spatialHash,      \* EnemyManager.spatialHash: cell key -> enemy ids in insertion order
    projectiles,      \* ProjectileManager.projectiles, in registry order
    projCounter,      \* number of projectiles spawned so far (identity of a projectile)
    bossSpawns,       \* number of boss / mini-boss spawn calls so far
    contactLog,       \* history: what the last player-contact phase saw and did
    hitLog,           \* history: collision hits, <<projectile, enemy, knockback before, after>>
    expiredLog        \* history: projectiles removed from the registry

worldVars == <<state, gameTime, killCount, player, enemies, enemyIdCounter,
               spawnTimer, spatialHash, projectiles, projCounter, bossSpawns,
               contactLog, hitLog, expiredLog>>

(***************************************************************************)
(* EnemyManager: spatial hash                                              *)
(***************************************************************************)
EnemyIndex(es, id) == CHOOSE i \in DOMAIN es : es[i].id = id

EnemyById(es, id) == es[EnemyIndex(es, id)]

CellKey(x, y) == <<x \div cellSize, y \div cellSize>>

EmptyHash == [k \in {} |-> <<>>]

addToSpatialHash(hash, enemy) ==
    LET key == CellKey(enemy.x, enemy.y)
    IN IF key \in DOMAIN hash
       THEN [hash EXCEPT ![key] = Append(@, enemy.id)]
       ELSE (key :> <<enemy.id>>) @@ hash

\* a lookup that rounds the cell radius down
cellRadiusFloor(radius) == radius \div cellSize

\* cellRadius = Math.ceil(radius / this.cellSize)
cellRadiusOf(radius) == CeilDiv(radius, cellSize)

InRadius(e, x, y, radius) ==
    (e.x - x) * (e.x - x) + (e.y - y) * (e.y - y) <= radius * radius

\* the cells the two nested loops of getEnemiesNear find in the map: those
\* within cellRadius of the centre cell c
CellsFound(hash, c, cr) ==
    { k \in DOMAIN hash : Abs(k[1] - c[1]) <= cr /\ Abs(k[2] - c[2]) <= cr }

RECURSIVE ScanCells(_, _)
\* the loops visit the cells in the order dx (outer), dy (inner); q is the
\* query [hash, es, x, y, radius], cells the cells still to visit
ScanCells(q, cells) ==
    IF cells = {} THEN <<>>
    ELSE LET keep(id) == /\ ~EnemyById(q.es, id).dead
                         /\ InRadius(EnemyById(q.es, id), q.x, q.y, q.radius)
             First(k) == SelectSeq(q.hash[k], keep) \o ScanCells(q, cells \ {k})
         IN First(CHOOSE k \in cells :
                     \A j \in cells : k[1] < j[1] \/ (k[1] = j[1] /\ k[2] <= j[2]))

\* ids of the enemies returned, in the order the code returns them
getEnemiesNear(hash, es, x, y, radius) ==
    ScanCells([hash |-> hash, es |-> es, x |-> x, y |-> y, radius |-> radius],
              CellsFound(hash, CellKey(x, y), cellRadiusOf(radius)))

RECURSIVE NearestFrom(_, _, _, _, _, _)
NearestFrom(es, i, x, y, best, bestDist) ==
    IF i > Len(es) THEN best
    ELSE LET e == es[i]
             d == (e.x - x) * (e.x - x) + (e.y - y) * (e.y - y)
         IN IF ~e.dead /\ (best = 0 \/ d < bestDist)
            THEN NearestFrom(es, i + 1, x, y, e.id, d)
            ELSE NearestFrom(es, i + 1, x, y, best, bestDist)

\* id of the nearest live enemy, 0 for null
getNearestEnemy(es, x, y) == NearestFrom(es, 1, x, y, 0, 0)

(***************************************************************************)
(* EnemyManager: spawning                                                  *)
(***************************************************************************)
Clamp(lo, hi, v) == Max2(lo, Min2(hi, v))

\* the value of a number that is NaN (an absent data field used in arithmetic)
NaN == 0 - 1000000

\* fields every spawn function leaves unset (lastGoodX / lastGoodY: 0 stands for
\* undefined) and the history kept per enemy: resolved = death resolutions
\* run, hpAtDeath = hp when flagged dead, deadHits = damageEnemy calls refused
\* because the enemy was dead, prevX / prevY = position at the end of the
\* previous updateEnemy (at the spawn before the first), recovered = the last
\* updateEnemy took the NaN branch, updates = updateEnemy calls so far
Unset(x, y) ==
    [lastGoodX |-> 0, lastGoodY |-> 0,
     resolved |-> 0, hpAtDeath |-> 0, deadHits |-> 0,
     prevX |-> x, prevY |-> y, recovered |-> FALSE, updates |-> 0]

\* Game.getDifficultyMultiplier, in percent: 1 + minutes * 0.05 before the boss
\* is defeated or at tier 0, the tier's hpMult after; gm is the Game object
getDifficultyMultiplier(gm, time) ==
    IF ~gm.bossDefeated \/ gm.difficultyTier = 0
    THEN 100 + TDiv(time * 5, 60000)
    ELSE difficultyTiers[Min2(gm.difficultyTier, Len(difficultyTiers))].hpMult

\* the enemy object built by spawnEnemy(type, difficulty) at player + offset
spawnEnemy(id, data, difficulty, pl, off) ==
    Unset(Clamp(50, mapWidth - 50, pl.x + off[1]), Clamp(50, mapHeight - 50, pl.y + off[2]))
    @@
    [id |-> id, type |-> "zombie",
     x |-> Clamp(50, mapWidth - 50, pl.x + off[1]),
     y |-> Clamp(50, mapHeight - 50, pl.y + off[2]),
     radius |-> data.radius,
     maxHp |-> TDiv(data.hp * difficulty * 120, 10000),
     hp |-> TDiv(data.hp * difficulty * 120, 10000),
     damage |-> TDiv(data.damage * ISqrt(difficulty * 100), 100),
     speed |-> data.speed,
     knockbackResist |-> data.knockbackResist,
     resurrect |-> data.resurrect, resurrected |-> FALSE,
     isBoss |-> FALSE, isMiniBoss |-> FALSE,
     dead |-> FALSE, knockbackX |-> 0, knockbackY |-> 0]

\* the enemy object built by spawnBoss(bossData); absent fields take the defaults
spawnBoss(id, bossData) ==
    Unset(bossData.x, bossData.y) @@
    [id |-> id, type |-> "boss",
     x |-> bossData.x, y |-> bossData.y,
     radius |-> IF bossData.size = 0 THEN 60 ELSE bossData.size,
     maxHp |-> TDiv((IF bossData.hp = 0 THEN 10000 ELSE bossData.hp) * 120, 100),
     hp |-> TDiv((IF bossData.hp = 0 THEN 10000 ELSE bossData.hp) * 120, 100),
     damage |-> IF bossData.damage = 0 THEN 30 ELSE bossData.damage,
     speed |-> IF bossData.speed = 0 THEN 80 ELSE bossData.speed,
     knockbackResist |-> 100,
     resurrect |-> FALSE, resurrected |-> FALSE,
     isBoss |-> TRUE, isMiniBoss |-> FALSE,
     dead |-> FALSE, knockbackX |-> 0, knockbackY |-> 0]

\* the enemy object built by spawnMiniBoss(miniBossData)
spawnMiniBoss(id, miniBossData) ==
    Unset(miniBossData.x, miniBossData.y) @@
    [id |-> id, type |-> "miniboss",
     x |-> miniBossData.x, y |-> miniBossData.y,
     radius |-> miniBossData.size,
     maxHp |-> TDiv(miniBossData.hp * 120, 100),
     hp |-> TDiv(miniBossData.hp * 120, 100),
     damage |-> miniBossData.damage,
     speed |-> miniBossData.speed,
     knockbackResist |-> 50,
     resurrect |-> FALSE, resurrected |-> FALSE,
     isBoss |-> FALSE, isMiniBoss |-> TRUE,
     dead |-> FALSE, knockbackX |-> 0, knockbackY |-> 0]

\* enemy.applyKnockback(kx, ky): the closure installed by the spawn function
applyKnockback(e, kx, ky) ==
    CASE e.type = "boss" ->
            [e EXCEPT !.knockbackX = @ + TDiv(kx, 10), !.knockbackY = @ + TDiv(ky, 10)]
      [] e.type = "miniboss" ->
            [e EXCEPT !.knockbackX = @ + TDiv(kx, 2), !.knockbackY = @ + TDiv(ky, 2)]
      [] OTHER ->
            [e EXCEPT !.knockbackX = @ + kx, !.knockbackY = @ + ky]

\* spawnWave: count = floor(3 + difficulty * 2) enemies, one offset each
waveCount(difficulty) == TDiv(300 + difficulty * 2, 100)

RECURSIVE spawnWave(_, _, _, _, _, _)
spawnWave(es, idc, difficulty, pl, offs, i) ==
    IF i > Len(offs) THEN [enemies |-> es, idc |-> idc]
    ELSE spawnWave(Append(es, spawnEnemy(idc + 1, ENEMIES.zombie, difficulty, pl, offs[i])),
                   idc + 1, difficulty, pl, offs, i + 1)

(***************************************************************************)
(* EnemyManager: per-enemy update, damage and death                        *)
(***************************************************************************)
\* the branch of updateEnemy taken when isNaN(enemy.x) || isNaN(enemy.y)
RecoverNaN(e) ==
    LET known == e.lastGoodX # 0
    IN [e EXCEPT !.lastGoodX = IF known THEN @ ELSE mapWidth \div 2,
                 !.lastGoodY = IF known THEN @ ELSE mapHeight \div 2,
                 !.x = IF known THEN e.lastGoodX ELSE mapWidth \div 2,
                 !.y = IF known THEN e.lastGoodY ELSE mapHeight \div 2,
                 !.knockbackX = 0, !.knockbackY = 0,
                 !.prevX = e.x, !.prevY = e.y,
                 !.recovered = TRUE, !.updates = @ + 1]

updateEnemy(e, dt, pl) ==
    IF e.dead THEN e
    \* enemy.speed NaN: the integrated position is NaN
    ELSE IF e.speed = NaN THEN RecoverNaN(e)
    ELSE
    LET rx == pl.x - e.x
        ry == pl.y - e.y
        kb == e.knockbackX # 0 \/ e.knockbackY # 0
        \* dx * speed * dtSeconds with dx = rx / dist
        Moved(dist) ==
            [e EXCEPT
               !.prevX = e.x, !.prevY = e.y, !.recovered = FALSE, !.updates = @ + 1,
               !.lastGoodX = Clamp(e.radius, mapWidth - e.radius,
                           e.x + (IF dist > 0 THEN TDiv(rx * e.speed * dt, dist * 1000) ELSE 0)
                               + (IF kb THEN e.knockbackX ELSE 0)),
               !.lastGoodY = Clamp(e.radius, mapHeight - e.radius,
                           e.y + (IF dist > 0 THEN TDiv(ry * e.speed * dt, dist * 1000) ELSE 0)
                               + (IF kb THEN e.knockbackY ELSE 0)),
               !.x = Clamp(e.radius, mapWidth - e.radius,
                           e.x + (IF dist > 0 THEN TDiv(rx * e.speed * dt, dist * 1000) ELSE 0)
                               + (IF kb THEN e.knockbackX ELSE 0)),
               !.y = Clamp(e.radius, mapHeight - e.radius,
                           e.y + (IF dist > 0 THEN TDiv(ry * e.speed * dt, dist * 1000) ELSE 0)
                               + (IF kb THEN e.knockbackY ELSE 0)),
               \* decay by 0.85; a magnitude below 0.1 becomes 0
               !.knockbackX = IF kb THEN TDiv(@ * 85, 100) ELSE @,
               !.knockbackY = IF kb THEN TDiv(@ * 85, 100) ELSE @]
    IN Moved(ISqrt(rx * rx + ry * ry))

\* g = [enemies, killCount, state]: what damageEnemy / killEnemy write
killEnemy(g, i) ==
    LET e == g.enemies[i]
    IN IF e.resurrect /\ ~e.resurrected
       THEN [g EXCEPT !.enemies[i].hp = TDiv(e.maxHp, 2),
                      !.enemies[i].resurrected = TRUE]
       ELSE [g EXCEPT !.enemies[i].dead = TRUE,
                      !.enemies[i].resolved = @ + 1,
                      !.enemies[i].hpAtDeath = e.hp,
                      !.killCount = @ + 1,
                      \* onMiniBossDefeated -> showGoldWheelSpin -> LEVEL_UP
                      !.state = IF e.isMiniBoss THEN "levelUp" ELSE @]

\* a damageEnemy without its "if (enemy.dead) return"
damageEnemyHitsDead(g, id, amount, curse) ==
    LET i == EnemyIndex(g.enemies, id)
        g1 == [g EXCEPT !.enemies[i].hp = @ - TDiv(amount * curse, 100)]
    IN IF g1.enemies[i].hp <= 0 THEN killEnemy(g1, i) ELSE g1

damageEnemy(g, id, amount, curse) ==
    LET i == EnemyIndex(g.enemies, id)
        e == g.enemies[i]
    IN IF e.dead THEN [g EXCEPT !.enemies[i].deadHits = @ + 1]
       ELSE LET g1 == [g EXCEPT !.enemies[i].hp = @ - TDiv(amount * curse, 100)]
            IN IF g1.enemies[i].hp <= 0 THEN killEnemy(g1, i) ELSE g1

RECURSIVE MoveAndHash(_, _, _, _, _, _)
\* the loop of EnemyManager.update: dead enemies are dropped, the others are
\* updated and re-inserted into the (cleared) hash
MoveAndHash(es, i, dt, pl, kept, hash) ==
    IF i > Len(es) THEN [enemies |-> kept, hash |-> hash]
    ELSE IF es[i].dead
         THEN MoveAndHash(es, i + 1, dt, pl, kept, hash)
         ELSE LET Keep(e) == MoveAndHash(es, i + 1, dt, pl, Append(kept, e),
                                         addToSpatialHash(hash, e))
              IN Keep(updateEnemy(es[i], dt, pl))

\* an update that moves the registry first and spawns the wave afterwards
EnemyManagerUpdateSpawnsLast(es, idc, timer, difficulty, dt, pl, offs) ==
    LET t1 == timer - dt
        wave == t1 <= 0 /\ Len(es) < maxEnemies
        t2 == IF wave
              THEN Max2(minSpawnInterval, TDiv(baseSpawnInterval * 100, difficulty))
              ELSE t1
        Result(w, r) ==
            [enemies |-> w.enemies, hash |-> r.hash, idc |-> w.idc, spawnTimer |-> t2,
             wave |-> wave]
        Spawned(r) == Result(IF wave
                             THEN spawnWave(r.enemies, idc, difficulty, pl, offs, 1)
                             ELSE [enemies |-> r.enemies, idc |-> idc], r)
    IN Spawned(MoveAndHash(es, 1, dt, pl, <<>>, EmptyHash))

\* EnemyManager.update(dt); offs are the random spawn offsets of a wave
EnemyManagerUpdate(es, idc, timer, difficulty, dt, pl, offs) ==
    LET t1 == timer - dt
        wave == t1 <= 0 /\ Len(es) < maxEnemies
        t2 == IF wave
              THEN Max2(minSpawnInterval, TDiv(baseSpawnInterval * 100, difficulty))
              ELSE t1
        Result(w, r) ==
            [enemies |-> r.enemies, hash |-> r.hash, idc |-> w.idc, spawnTimer |-> t2,
             wave |-> wave]
        Moved(w) == Result(w, MoveAndHash(w.enemies, 1, dt, pl, <<>>, EmptyHash))
    IN Moved(IF wave THEN spawnWave(es, idc, difficulty, pl, offs, 1)
             ELSE [enemies |-> es, idc |-> idc])

(***************************************************************************)
(* Player                                                                  *)
(***************************************************************************)
\* Player.update(dt, input) with no movement input: the invincibility timer
PlayerUpdate(pl, dt) ==
    IF pl.invincible
    THEN LET t == pl.invincibilityTimer - dt
         IN [pl EXCEPT !.invincibilityTimer = t, !.invincible = ~(t <= 0)]
    ELSE pl

\* Player.takeDamage(amount); h = [player, state]
takeDamage(h, amount) ==
    LET pl == h.player
    IN IF pl.invincible THEN h
       ELSE LET finalDamage == Max2(1, TDiv(amount * pl.curse, 100) - pl.armor)
                p1 == [pl EXCEPT !.hp = @ - finalDamage,
                                 !.invincible = TRUE,
                                 !.invincibilityTimer = invincibilityTime]
            IN IF p1.hp <= 0
               THEN IF p1.revivals > 0
                    THEN [h EXCEPT !.player =
                            [p1 EXCEPT !.hp = TDiv(p1.maxHp, 2),
                                       !.revivalsUsed = @ + 1,
                                       !.revivals = Max2(0, 0 - (p1.revivalsUsed + 1))]]
                    ELSE [player |-> p1, state |-> "gameOver"]
               ELSE [h EXCEPT !.player = p1]

(***************************************************************************)
(* ProjectileManager                                                       *)
(***************************************************************************)
Or0(v, d) == IF v = 0 THEN d ELSE v      \* JavaScript  v || d  on numbers

\* spawn(options): the projectile object; 0 / FALSE stand for an absent option.
\* id, damaged, exhaustedAt, expireCalls, born, removedAt and hits (the
\* enemy, age and landed flag of every hit) are bookkeeping of the model.
spawn(id, options) ==
    [id |-> id,
     x |-> options.x, y |-> options.y,
     dx |-> options.dx, dy |-> options.dy,
     speed |-> Or0(options.speed, 300),
     damage |-> Or0(options.damage, 10),
     pierce |-> Or0(options.pierce, 1),
     pierceCount |-> 0,
     duration |-> Or0(options.duration, 2000),
     age |-> 0,
     size |-> Or0(options.size, 8),
     width |-> options.width, height |-> options.height,
     type |-> options.type,
     pattern |-> options.pattern,
     hitEnemies |-> {},
     owner |-> options.owner,
     returnTime |-> options.returnTime,
     returning |-> FALSE,
     knockback |-> Or0(options.knockback, 5),
     tickRate |-> options.tickRate,
     lastTick |-> 0,
     hasTarget |-> options.hasTarget,
     targetX |-> options.targetX, targetY |-> options.targetY,
     landed |-> FALSE,
     gravity |-> options.gravity,
     onHit |-> options.onHit, splashRadius |-> options.splashRadius,
     onExpire |-> options.onExpire,
     damaged |-> {}, exhaustedAt |-> -1, expireCalls |-> 0,
     born |-> -1, removedAt |-> -1, hits |-> <<>>]

Step(d, speed, dt) == TDiv(d * speed * dt, 1000000)   \* d * speed * dtSeconds

\* a boomerang that homes on its owner and never expires on reaching them
updateBoomerangNoSnap(p, dt, owner) ==
    LET ret == p.returning \/ p.age >= p.returnTime
        rx == owner.x - p.x
        ry == owner.y - p.y
        d2 == rx * rx + ry * ry
        homing == ret /\ p.owner /\ d2 > 0
        dx1 == IF homing THEN TDiv(rx * 1000, ISqrt(d2)) ELSE p.dx
        dy1 == IF homing THEN TDiv(ry * 1000, ISqrt(d2)) ELSE p.dy
    IN [p EXCEPT !.returning = ret,
                 !.dx = dx1, !.dy = dy1,
                 !.x = @ + Step(dx1, p.speed, dt),
                 !.y = @ + Step(dy1, p.speed, dt)]

\* updateProjectile, case 'boomerang'
updateBoomerang(p, dt, owner) ==
    LET ret == p.returning \/ p.age >= p.returnTime
        rx == owner.x - p.x
        ry == owner.y - p.y
        d2 == rx * rx + ry * ry
        dist == ISqrt(d2)
        homing == ret /\ p.owner
        dx1 == IF homing /\ d2 > 0 THEN TDiv(rx * 1000, dist) ELSE p.dx
        dy1 == IF homing /\ d2 > 0 THEN TDiv(ry * 1000, dist) ELSE p.dy
        reached == homing /\ d2 < BoomerangSnapRadius * BoomerangSnapRadius
    IN [p EXCEPT !.returning = ret,
                 !.dx = dx1, !.dy = dy1,
                 !.age = IF reached THEN p.duration ELSE @,
                 !.x = @ + Step(dx1, p.speed, dt),
                 !.y = @ + Step(dy1, p.speed, dt)]

\* updateProjectile, case 'bounce'
updateBounce(p, dt) ==
    LET x1 == p.x + Step(p.dx, p.speed, dt)
        y1 == p.y + Step(p.dy, p.speed, dt)
        bx == x1 < 0 \/ x1 > mapWidth
        by == y1 < 0 \/ y1 > mapHeight
    IN [p EXCEPT !.x = IF bx THEN Clamp(0, mapWidth, x1) ELSE x1,
                 !.y = IF by THEN Clamp(0, mapHeight, y1) ELSE y1,
                 !.dx = IF bx THEN -@ ELSE @,
                 !.dy = IF by THEN -@ ELSE @]

updateProjectile(p, dt, owner) ==
    CASE p.pattern = "arc" ->
            LET dy1 == p.dy + TDiv(p.gravity * dt, 1000)
            IN [p EXCEPT !.dy = dy1,
                         !.x = @ + Step(p.dx, p.speed, dt),
                         !.y = @ + Step(dy1, p.speed, dt)]
      [] p.pattern = "boomerang" -> updateBoomerang(p, dt, owner)
      [] p.pattern = "bounce" -> updateBounce(p, dt)
      [] OTHER ->
            [p EXCEPT !.x = @ + Step(p.dx, p.speed, dt),
                      !.y = @ + Step(p.dy, p.speed, dt)]

updateMelee(p, dt, owner) ==
    IF p.owner
    THEN [p EXCEPT !.x = owner.x + TDiv(p.dx * TDiv(p.width, 2), 1000), !.y = owner.y]
    ELSE p

updateGround(p, dt) ==
    IF p.landed THEN p
    ELSE IF ~p.hasTarget THEN [p EXCEPT !.landed = TRUE]
    ELSE LET rx == p.targetX - p.x
             ry == p.targetY - p.y
             d2 == rx * rx + ry * ry
             dist == ISqrt(d2)
         \* dist < p.speed * (dt / 1000)
         IN IF d2 < CeilDiv((p.speed * dt) * (p.speed * dt), 1000000)
            THEN [p EXCEPT !.x = p.targetX, !.y = p.targetY, !.landed = TRUE]
            ELSE [p EXCEPT !.x = @ + TDiv(rx * p.speed * dt, dist * 1000),
                           !.y = @ + TDiv(ry * p.speed * dt, dist * 1000)]

RECURSIVE UpdateProjectiles(_, _, _, _, _, _)
\* the loop of ProjectileManager.update(dt) followed by the removal loop
UpdateProjectiles(ps, i, dt, owner, kept, gone) ==
    IF i > Len(ps) THEN [projectiles |-> kept, expired |-> gone]
    ELSE LET p0 == [ps[i] EXCEPT !.age = @ + dt]
         IN IF p0.age >= p0.duration
            THEN UpdateProjectiles(ps, i + 1, dt, owner, kept,
                    gone \cup {[p0 EXCEPT !.expireCalls =
                                    IF p0.onExpire THEN @ + 1 ELSE @]})
            ELSE LET p1 == CASE p0.type = "projectile" -> updateProjectile(p0, dt, owner)
                             [] p0.type = "melee" -> updateMelee(p0, dt, owner)
                             [] p0.type = "ground" -> updateGround(p0, dt)
                             [] OTHER -> p0
                 IN UpdateProjectiles(ps, i + 1, dt, owner, Append(kept, p1), gone)

rectCircleCollision(rx, ry, rw, rh, cx, cy, cr) ==
    LET closestX == Max2(rx, Min2(cx, rx + rw))
        closestY == Max2(ry, Min2(cy, ry + rh))
        dx == cx - closestX
        dy == cy - closestY
    IN dx * dx + dy * dy < cr * cr

\* the shape test of checkEnemyCollisions
Overlaps(p, e) ==
    IF p.width > 0 /\ p.height > 0
    THEN rectCircleCollision(p.x - TDiv(p.width, 2), p.y - TDiv(p.height, 2),
                             p.width, p.height, e.x, e.y, e.radius)
    ELSE (p.x - e.x) * (p.x - e.x) + (p.y - e.y) * (p.y - e.y)
            < (p.size + e.radius) * (p.size + e.radius)

\* knockbackForce = p.knockback * (1 - enemy.knockbackResist)
knockbackForce(p, e) == TDiv(p.knockback * (100 - e.knockbackResist), 100)

RECURSIVE Splash(_, _, _, _, _, _)
\* Fireball's onHit: every enemy near the projectile other than the target
\* takes proj.damage
Splash(g, near, i, target, amount, curse) ==
    IF i > Len(near) THEN g
    ELSE Splash(IF near[i] # target THEN damageEnemy(g, near[i], amount, curse) ELSE g,
                near, i + 1, target, amount, curse)

\* a projectile that flies on after its last allowed hit
PierceCheckNeverExpires(p, now) == p

\* "Check pierce limit": onExpire, then p.age = p.duration
PierceCheck(p, now) ==
    IF p.pierceCount >= p.pierce
    THEN [p EXCEPT !.expireCalls = IF p.onExpire THEN @ + 1 ELSE @,
                   !.exhaustedAt = now,
                   !.age = p.duration]
    ELSE p

\* "Apply knockback": the enemy after enemy.applyKnockback(dx / dist * force, ...)
hitKnockback(p, e) ==
    LET dx == e.x - p.x
        dy == e.y - p.y
        force == knockbackForce(p, e)
        Push(dist) == applyKnockback(e, TDiv(dx * force, dist), TDiv(dy * force, dist))
    IN Push(Or0(ISqrt(dx * dx + dy * dy), 1))

\* "if (p.onHit) p.onHit(p, enemy)": Fireball's area damage around the projectile
onHit(p, g, target, hash, curse) ==
    IF p.onHit = "splash"
    THEN Splash(g, getEnemiesNear(hash, g.enemies, p.x, p.y, p.splashRadius),
                1, target, p.damage, curse)
    ELSE g

\* history of one hit: what the projectile asked for and how the enemy's
\* knockback accumulator changed
HitRecord(p, e1, e2) ==
    [proj |-> p.id, enemy |-> e1.id, type |-> e1.type,
     K |-> p.knockback, R |-> e1.knockbackResist,
     dx |-> e1.x - p.x, dy |-> e1.y - p.y,
     kx |-> e2.knockbackX - e1.knockbackX,
     ky |-> e2.knockbackY - e1.knockbackY]

\* the body of "if (hit)" for projectile p and enemy id;
\* c = [g, p, log]: game fields, the projectile, the hit log
ResolveHit(c, id, hash, curse, now) ==
    LET p == c.p
        i == EnemyIndex(c.g.enemies, id)
        wasDead == c.g.enemies[i].dead
        Pushed(g1, e1, e2) ==
            [g |-> onHit(p, [g1 EXCEPT !.enemies[i] = e2], id, hash, curse),
             p |-> PierceCheck([p EXCEPT !.hitEnemies = @ \cup {id},
                                         !.pierceCount = @ + 1,
                                         !.damaged = IF wasDead THEN @ ELSE @ \cup {id},
                                         !.hits = Append(@, [enemy |-> id, age |-> p.age,
                                                             landed |-> p.landed])],
                               now),
             log |-> c.log \cup {HitRecord(p, e1, e2)}]
        Damaged(g1) == Pushed(g1, g1.enemies[i], hitKnockback(p, g1.enemies[i]))
    IN Damaged(damageEnemy(c.g, id, p.damage, curse))

RECURSIVE HitLoop(_, _, _, _, _, _)
\* "for (const enemy of enemies)" with its break at the pierce limit
HitLoop(c, near, i, hash, curse, now) ==
    IF i > Len(near) THEN c
    ELSE LET id == near[i]
             Next(c1) == IF c1.p.pierceCount >= c1.p.pierce THEN c1
                         ELSE HitLoop(c1, near, i + 1, hash, curse, now)
         IN IF id \in c.p.hitEnemies THEN HitLoop(c, near, i + 1, hash, curse, now)
            ELSE IF Overlaps(c.p, EnemyById(c.g.enemies, id))
                 THEN Next(ResolveHit(c, id, hash, curse, now))
                 ELSE HitLoop(c, near, i + 1, hash, curse, now)

\* the radius checkEnemyCollisions passes to getEnemiesNear
collisionQueryRadius(p) == Max2(p.size, Max2(p.width, p.height)) + ProjectileQueryMargin

\* an iteration that forgets the tick interval: the hit-set is cleared and
\* the hit loop runs on every pass
CollideOneEveryTick(g, p, log, hash, curse, now) ==
    IF p.type = "ground" /\ ~p.landed THEN [g |-> g, p |-> p, log |-> log]
    ELSE LET p0 == IF p.tickRate > 0
                   THEN [p EXCEPT !.lastTick = p.age, !.hitEnemies = {}]
                   ELSE p
             near == getEnemiesNear(hash, g.enemies, p0.x, p0.y, collisionQueryRadius(p0))
         IN HitLoop([g |-> g, p |-> p0, log |-> log], near, 1, hash, curse, now)

\* one iteration of "for (const p of this.projectiles)"
CollideOne(g, p, log, hash, curse, now) ==
    IF p.type = "ground" /\ ~p.landed THEN [g |-> g, p |-> p, log |-> log]
    ELSE IF p.tickRate > 0 /\ p.age - p.lastTick < p.tickRate
    THEN [g |-> g, p |-> p, log |-> log]
    ELSE LET p0 == IF p.tickRate > 0
                   THEN [p EXCEPT !.lastTick = p.age, !.hitEnemies = {}]
                   ELSE p
             near == getEnemiesNear(hash, g.enemies, p0.x, p0.y, collisionQueryRadius(p0))
         IN HitLoop([g |-> g, p |-> p0, log |-> log], near, 1, hash, curse, now)

RECURSIVE checkEnemyCollisions(_, _, _, _, _, _, _)
\* ProjectileManager.checkEnemyCollisions(enemyManager)
checkEnemyCollisions(g, ps, i, log, hash, curse, now) ==
    IF i > Len(ps) THEN [g |-> g, projectiles |-> ps, log |-> log]
    ELSE LET Rest(c) == checkEnemyCollisions(c.g, [ps EXCEPT ![i] = c.p], i + 1, c.log,
                                             hash, curse, now)
         IN Rest(CollideOne(g, ps[i], log, hash, curse, now))

(***************************************************************************)
(* Game.update and Game.checkCollisions                                    *)
(***************************************************************************)
circleCollision(a, b) ==
    (a.x - b.x) * (a.x - b.x) + (a.y - b.y) * (a.y - b.y)
        < (a.radius + b.radius) * (a.radius + b.radius)

\* the radius Game.checkCollisions passes to getEnemiesNear
contactQueryRadius(pl) == pl.radius + ContactQueryMargin

RECURSIVE ContactLoop(_, _, _, _, _)
\* "Player vs Enemies": h = [player, state], called = enemies whose damage
\* was passed to player.takeDamage
ContactLoop(h, es, near, i, called) ==
    IF i > Len(near) THEN [h |-> h, called |-> called]
    ELSE LET e == EnemyById(es, near[i])
         IN IF circleCollision(h.player, e)
            THEN ContactLoop(takeDamage(h, e.damage), es, near, i + 1, called \cup {e.id})
            ELSE ContactLoop(h, es, near, i + 1, called)

\* linear scan of the registry: live enemies in contact with the player
Touching(pl, es) ==
    { es[i].id : i \in { j \in DOMAIN es : ~es[j].dead /\ circleCollision(pl, es[j]) } }

WaveDue(n, dt) == spawnTimer - dt <= 0 /\ n < maxEnemies

(***************************************************************************)
(* Player stats and the base Weapon class                                  *)
(*                                                                         *)
(* Multipliers are kept in tenths (10 = 1.0).  A weapon's damage is kept   *)
(* in tenths of a hit point and its cooldown and cooldown timer in         *)
(* thousandths of a millisecond, so that every product below is exact.     *)
(***************************************************************************)
VARIABLES
    passives,         \* Player.passives: sequence of [id, level]
    owner,            \* Player.damage / cooldown / projectiles / area / projectileSpeed
    weapons           \* Player.weapons: sequence of weapon objects

CdScale == 10 * 10 * 10

maxWeapons == 6                 \* Player.maxWeapons
maxPassives == 6                \* Player.maxPassives
minCooldown == 50               \* Weapon.recalculateStats: Math.max(50, ...)

NoUpgrade == [damage |-> 0, cooldown |-> 0, projectiles |-> 0, area |-> 0, speed |-> 0]

\* WEAPONS and PASSIVES live in data/config.js, which is not part of the
\* sources; these tables are representative entries.
WEAPONS(id) ==
    CASE id = "magicWand" ->
            [baseDamage |-> 10, baseCooldown |-> 60, baseProjectiles |-> 1,
             baseArea |-> 10, baseSpeed |-> 300, maxLevel |-> 3,
             upgrades |-> << [NoUpgrade EXCEPT !.damage = 5],
                             [NoUpgrade EXCEPT !.cooldown = -5] >>]
      [] id = "axe" ->
            [baseDamage |-> 20, baseCooldown |-> 90, baseProjectiles |-> 1,
             baseArea |-> 10, baseSpeed |-> 200, maxLevel |-> 3,
             upgrades |-> << [NoUpgrade EXCEPT !.cooldown = -2, !.area = 2],
                             [NoUpgrade EXCEPT !.damage = 10, !.projectiles = 1] >>]
      [] id = "holyWater" ->
            [baseDamage |-> 5, baseCooldown |-> 200, baseProjectiles |-> 1,
             baseArea |-> 10, baseSpeed |-> 300, maxLevel |-> 1, duration |-> 3000,
             pierce |-> 10, upgrades |-> <<>>]
      [] id = "bone" ->
            [baseDamage |-> 15, baseCooldown |-> 150, baseProjectiles |-> 1,
             baseArea |-> 10, baseSpeed |-> 1200, maxLevel |-> 1, duration |-> 68,
             upgrades |-> <<>>]
      [] id = "lightning" ->
            [baseDamage |-> 30, baseCooldown |-> 200, baseProjectiles |-> 2,
             baseArea |-> 10, baseSpeed |-> 0, maxLevel |-> 1, baseRange |-> 300,
             upgrades |-> <<>>]
      [] id = "hellfire" ->
            [baseDamage |-> 60, baseCooldown |-> 300, baseProjectiles |-> 2,
             baseArea |-> 10, baseSpeed |-> 0, maxLevel |-> 1, baseRange |-> 300,
             upgrades |-> <<>>]

WeaponIds == {"magicWand", "axe"}

PASSIVES(id) ==
    CASE id = "spinach" ->
            [effect |-> [damage |-> 1, cooldown |-> 0, projectiles |-> 0], maxLevel |-> 2]
      [] id = "emptyTome" ->
            [effect |-> [damage |-> 0, cooldown |-> -1, projectiles |-> 0], maxLevel |-> 2]
      [] id = "duplicator" ->
            [effect |-> [damage |-> 0, cooldown |-> 0, projectiles |-> 1], maxLevel |-> 1]

PassiveIds == {"spinach", "emptyTome", "duplicator"}

RECURSIVE PassiveSum(_, _, _)
\* the accumulation loop of Player.recalculateStats for one effect field
PassiveSum(ps, i, field) ==
    IF i > Len(ps) THEN 0
    ELSE PASSIVES(ps[i].id).effect[field] * ps[i].level + PassiveSum(ps, i + 1, field)

\* Player.recalculateStats: the multipliers read by Weapon.recalculateStats
PlayerRecalculateStats(ps) ==
    [damage |-> 10 + PassiveSum(ps, 1, "damage"),
     cooldown |-> 10 + PassiveSum(ps, 1, "cooldown"),
     projectiles |-> 0 + PassiveSum(ps, 1, "projectiles"),
     area |-> 10,
     projectileSpeed |-> 10]

RECURSIVE FoldUpgrades(_, _, _, _)
\* "for (i = 0; i < level - 1 && i < upgrades.length; i++)"; i is 1-based here
FoldUpgrades(acc, ups, level, i) ==
    IF ~(i - 1 < level - 1 /\ i - 1 < Len(ups)) THEN acc
    ELSE LET u == ups[i]
         IN FoldUpgrades(
              [damage |-> acc.damage + u.damage,
               \* cooldown *= (1 + upgrade.cooldown), one factor of ten per step
               cooldown |-> IF u.cooldown # 0 THEN acc.cooldown * (10 + u.cooldown)
                            ELSE acc.cooldown * 10,
               steps |-> acc.steps + 1,
               projectiles |-> acc.projectiles + u.projectiles,
               area |-> acc.area + u.area,
               speed |-> acc.speed + u.speed],
              ups, level, i + 1)

RECURSIVE Pow10(_)
Pow10(n) == IF n <= 0 THEN 1 ELSE 10 * Pow10(n - 1)

\* derived stats that scale the base damage alone and add the upgrades after
recalculateStatsScalesBase(id, level, o) ==
    LET data == WEAPONS(id)
        Derived(f) ==
            [damage |-> data.baseDamage * o.damage + (f.damage - data.baseDamage) * 10,
             cooldown |-> Max2(minCooldown * CdScale,
                               f.cooldown * Pow10(2 - f.steps) * o.cooldown),
             projectiles |-> f.projectiles + o.projectiles,
             area |-> f.area * o.area,
             speed |-> f.speed * o.projectileSpeed]
    IN Derived(FoldUpgrades([damage |-> data.baseDamage, cooldown |-> data.baseCooldown,
                             steps |-> 0, projectiles |-> data.baseProjectiles,
                             area |-> data.baseArea, speed |-> data.baseSpeed],
                            data.upgrades, level, 1))

\* Weapon.recalculateStats(): the derived stats of weapon id at a level for
\* the owner multipliers o
recalculateStats(id, level, o) ==
    LET data == WEAPONS(id)
        \* the cooldown is brought to thousandths: one factor of ten per
        \* upgrade step not taken, one for the owner multiplier
        Derived(f) ==
            [damage |-> f.damage * o.damage,
             cooldown |-> Max2(minCooldown * CdScale,
                               f.cooldown * Pow10(2 - f.steps) * o.cooldown),
             projectiles |-> f.projectiles + o.projectiles,
             area |-> f.area * o.area,
             speed |-> f.speed * o.projectileSpeed]
    IN Derived(FoldUpgrades([damage |-> data.baseDamage, cooldown |-> data.baseCooldown,
                             steps |-> 0, projectiles |-> data.baseProjectiles,
                             area |-> data.baseArea, speed |-> data.baseSpeed],
                            data.upgrades, level, 1))

\* new Weapon(player, weaponId)
NewWeapon(id, o) ==
    [id |-> id, level |-> 1, cooldownTimer |-> 0,
     stats |-> recalculateStats(id, 1, o),
     \* bookkeeping of the model
     recalcOwner |-> o, fireCount |-> 0,
     last |-> [op |-> "new", before |-> 0, dt |-> 0, fires |-> 0]]

\* a levelUp that restarts the running cooldown cycle
WeaponLevelUpRestarts(w, o) ==
    IF w.level < WEAPONS(w.id).maxLevel
    THEN [w EXCEPT !.level = @ + 1,
                   !.stats = recalculateStats(w.id, w.level + 1, o),
                   !.cooldownTimer = recalculateStats(w.id, w.level + 1, o).cooldown,
                   !.recalcOwner = o,
                   !.last = [op |-> "levelUp", before |-> w.cooldownTimer, dt |-> 0,
                             fires |-> 0]]
    ELSE w

\* Weapon.levelUp()
WeaponLevelUp(w, o) ==
    IF w.level < WEAPONS(w.id).maxLevel
    THEN [w EXCEPT !.level = @ + 1,
                   !.stats = recalculateStats(w.id, w.level + 1, o),
                   !.recalcOwner = o,
                   !.last = [op |-> "levelUp", before |-> w.cooldownTimer, dt |-> 0,
                             fires |-> 0]]
    ELSE w

\* Weapon.update(dt) of the base class; fire() is the subclass hook
WeaponUpdate(w, dt) ==
    LET t == w.cooldownTimer - dt * CdScale
        fires == t <= 0
    IN [w EXCEPT !.cooldownTimer = IF fires THEN w.stats.cooldown ELSE t,
                 !.fireCount = IF fires THEN @ + 1 ELSE @,
                 !.last = [op |-> "update", before |-> w.cooldownTimer, dt |-> dt,
                           fires |-> IF fires THEN 1 ELSE 0]]

HasWeapon(ws, id) == \E i \in DOMAIN ws : ws[i].id = id

HasPassive(ps, id) == \E i \in DOMAIN ps : ps[i].id = id

IndexOfId(seq, id) == CHOOSE i \in DOMAIN seq : seq[i].id = id

\* Player.applyUpgrade(upgrade): r = [weapons, passives, owner]
applyUpgrade(r, upgrade) ==
    IF upgrade.type = "weapon"
    THEN IF HasWeapon(r.weapons, upgrade.id)
         THEN [r EXCEPT !.weapons[IndexOfId(r.weapons, upgrade.id)] =
                            WeaponLevelUp(@, r.owner)]
         ELSE IF Len(r.weapons) < maxWeapons
              THEN [r EXCEPT !.weapons = Append(@, NewWeapon(upgrade.id, r.owner))]
              ELSE r
    ELSE IF HasPassive(r.passives, upgrade.id)
         THEN LET ps == [r.passives EXCEPT ![IndexOfId(r.passives, upgrade.id)].level = @ + 1]
              IN [r EXCEPT !.passives = ps, !.owner = PlayerRecalculateStats(ps)]
         ELSE IF Len(r.passives) < maxPassives
              THEN LET ps == Append(r.passives, [id |-> upgrade.id, level |-> 1])
                   IN [r EXCEPT !.passives = ps, !.owner = PlayerRecalculateStats(ps)]
              ELSE r

(***************************************************************************)
(* ChainLightning                                                          *)
(***************************************************************************)
VARIABLES
    chainHits,        \* history: enemy ids damaged by the last ChainLightning.fire, in order
    chainFires,       \* history: number of ChainLightning.fire calls so far
    beam              \* the player's VoidBeam weapon

chainRange == 300               \* ChainLightning.fire: chainRange
defaultChainCount == 4          \* ChainLightning.fire: data.chainCount || 4

chainCountOf(level) == defaultChainCount + (level \div 2)

RECURSIVE FirstFresh(_, _, _, _)
\* "for (const enemy of nearby) if (!hitEnemies.has(enemy.id) && !enemy.dead)"
FirstFresh(es, nearby, i, hit) ==
    IF i > Len(nearby) THEN 0
    ELSE IF nearby[i] \notin hit /\ ~EnemyById(es, nearby[i]).dead THEN nearby[i]
    ELSE FirstFresh(es, nearby, i + 1, hit)

RECURSIVE ChainLoop(_, _, _, _, _, _, _, _)
\* the hop loop of one chain; c = [g, hits]; amount = damage * 0.85^i
ChainLoop(c, hash, current, i, count, amount, hit, curse) ==
    IF ~(i < count /\ current # 0) THEN c
    ELSE IF current \in hit THEN c
    ELSE LET hit1 == hit \cup {current}
             From(g1, t) ==
                ChainLoop([g |-> g1, hits |-> Append(c.hits, current)], hash,
                          FirstFresh(g1.enemies,
                                     getEnemiesNear(hash, g1.enemies, t.x, t.y, chainRange),
                                     1, hit1),
                          i + 1, count, TDiv(amount * 17, 20), hit1, curse)
             Damaged(g1) == From(g1, EnemyById(g1.enemies, current))
         IN Damaged(damageEnemy(c.g, current, amount, curse))

RECURSIVE ChainProjectiles(_, _, _, _, _, _, _, _)
\* "for (let p = 0; p < projectileCount; p++)": each chain has its own hit set
ChainProjectiles(c, hash, pl, p, projectileCount, damage, level, curse) ==
    IF ~(p < projectileCount) THEN c
    ELSE LET Chain(initialTarget) ==
                IF initialTarget = 0 THEN c
                ELSE ChainLoop(c, hash, initialTarget, 0, chainCountOf(level),
                               damage, {}, curse)
         IN ChainProjectiles(Chain(getNearestEnemy(c.g.enemies, pl.x, pl.y)),
                             hash, pl, p + 1, projectileCount, damage, level, curse)

\* ChainLightning.fire()
ChainLightningFire(g, hash, pl, damage, level, projectileCount, curse) ==
    ChainProjectiles([g |-> g, hits |-> <<>>], hash, pl, 0, projectileCount,
                     damage, level, curse)

(***************************************************************************)
(* VoidBeam                                                                *)
(***************************************************************************)
beamLength == 600               \* VoidBeam.damageEnemiesInBeam: beamLength
beamBaseWidth == 30             \* VoidBeam.damageEnemiesInBeam: 30 * this.area

NoBeam ==
    [equipped |-> FALSE, cooldownTimer |-> 0, cooldown |-> 0, duration |-> 0,
     damage |-> 0, area |-> 10, beamActive |-> FALSE, beamTimer |-> 0,
     dirX |-> 1000, dirY |-> 0, hitEnemies |-> {},
     hits |-> <<>>, inside |-> {}, passes |-> 0, firedWhileActive |-> FALSE]

\* the enemy is inside the beam: the two tests of damageEnemiesInBeam
InBeam(b, pl, e) ==
    LET dx == e.x - pl.x
        dy == e.y - pl.y
        dot == dx * b.dirX + dy * b.dirY
        perpDist == Abs(dx * b.dirY - dy * b.dirX)
    IN /\ dot > 0
       /\ dot < beamLength * 1000
       /\ perpDist * 10 < (beamBaseWidth * b.area + e.radius * 10) * 1000

RECURSIVE BeamLoop(_, _, _, _)
\* "for (const enemy of enemies)" of damageEnemiesInBeam; c = [g, b]
BeamLoop(c, pl, i, curse) ==
    IF i > Len(c.g.enemies) THEN c
    ELSE LET e == c.g.enemies[i]
         IN IF InBeam(c.b, pl, e) /\ e.id \notin c.b.hitEnemies
            THEN BeamLoop([g |-> damageEnemy(c.g, e.id, c.b.damage, curse),
                           b |-> [c.b EXCEPT !.hitEnemies = @ \cup {e.id},
                                             !.hits = IF e.dead THEN @
                                                      ELSE Append(@, e.id)]],
                          pl, i + 1, curse)
            ELSE BeamLoop(c, pl, i + 1, curse)

InsideNow(b, pl, es) ==
    { es[i].id : i \in { j \in DOMAIN es : ~es[j].dead /\ InBeam(b, pl, es[j]) } }

\* a pass that starts from an empty hit set
damageEnemiesInBeamForgets(c, pl, curse) ==
    LET Pass(inside, c0) ==
            [BeamLoop(c0, pl, 1, curse)
               EXCEPT !.b.inside = IF c.b.passes = 0 THEN inside ELSE @ \cap inside,
                      !.b.passes = @ + 1]
    IN Pass(InsideNow(c.b, pl, c.g.enemies), [c EXCEPT !.b.hitEnemies = {}])

damageEnemiesInBeam(c, pl, curse) ==
    LET inside == InsideNow(c.b, pl, c.g.enemies)
    IN [BeamLoop(c, pl, 1, curse)
          EXCEPT !.b.inside = IF c.b.passes = 0 THEN inside ELSE @ \cap inside,
                 !.b.passes = @ + 1]

\* VoidBeam.fire(): aim at the nearest enemy, else along the facing direction
VoidBeamFire(b, es, pl) ==
    LET Aimed(dx, dy, len) ==
            [b EXCEPT \* cos / sin of atan2(dy, dx); atan2(0, 0) = 0
                      !.dirX = IF len = 0 THEN 1000 ELSE TDiv(dx * 1000, len),
                      !.dirY = IF len = 0 THEN 0 ELSE TDiv(dy * 1000, len),
                      !.beamActive = TRUE,
                      !.beamTimer = b.duration,
                      !.hitEnemies = {},
                      !.firedWhileActive = @ \/ b.beamActive,
                      !.hits = <<>>, !.inside = {}, !.passes = 0]
        Aim(dx, dy) == Aimed(dx, dy, ISqrt(dx * dx + dy * dy))
        At(target) ==
            IF target # 0
            THEN Aim(EnemyById(es, target).x - pl.x, EnemyById(es, target).y - pl.y)
            ELSE Aim(pl.facingX, pl.facingY)
    IN At(getNearestEnemy(es, pl.x, pl.y))

\* VoidBeam.update(dt); c = [g, b]
VoidBeamUpdate(c, pl, dt, curse) ==
    LET b0 == [c.b EXCEPT !.cooldownTimer = @ - dt]
        Ended(d) == [d EXCEPT !.b.beamActive = ~(d.b.beamTimer <= 0)]
        Fire(c1) ==
            IF c1.b.cooldownTimer <= 0 /\ ~c1.b.beamActive
            THEN [c1 EXCEPT !.b = [VoidBeamFire(c1.b, c1.g.enemies, pl)
                                     EXCEPT !.cooldownTimer = c1.b.cooldown]]
            ELSE c1
    IN Fire(IF b0.beamActive
            THEN Ended(damageEnemiesInBeam(
                          [g |-> c.g, b |-> [b0 EXCEPT !.beamTimer = @ - dt]], pl, curse))
            ELSE [g |-> c.g, b |-> b0])

(***************************************************************************)
(* The Game object: run flags, the frame loop, deferred callbacks          *)
(***************************************************************************)
VARIABLES
    game,             \* Game.bossDefeated, currentBoss, portal, portalSparkTouched,
                      \* sparkSpawned, difficultyTier, goldMultiplier (percent),
                      \* miniBossCount; wheels = gold-wheel callbacks not yet run
    accumulator,      \* Game.accumulator
    frame,            \* position inside Game.gameLoop and history of the frame
    run,              \* number of startGame() calls: identity of the managers
    timers,           \* callbacks handed to setTimeout and not yet run
    strays            \* history: what deferred callbacks of an earlier run did

vars == <<state, gameTime, killCount, player, enemies, enemyIdCounter,
          spawnTimer, spatialHash, projectiles, projCounter, bossSpawns,
          contactLog, hitLog, expiredLog, passives, owner, weapons,
          chainHits, chainFires, beam, game, accumulator, frame, run, timers,
          strays>>

\* the object Game.spawnMiniBoss hands to EnemyManager.spawnMiniBoss: an entry
\* of MINI_BOSSES placed at (x, y)
MiniBossData(x, y) ==
    [x |-> x, y |-> y, size |-> 30, hp |-> 500, damage |-> 20, speed |-> 60]

\* the fields Game's constructor and startGame() set
NewGame ==
    [bossDefeated |-> FALSE, currentBoss |-> FALSE, portal |-> FALSE,
     portalSparkTouched |-> FALSE, sparkSpawned |-> FALSE,
     difficultyTier |-> 0, goldMultiplier |-> 100, miniBossCount |-> 0, wheels |-> 0,
     portalX |-> 0, portalY |-> 0, coinsCollected |-> 0, victories |-> 0]

\* showDifficultyWarning(tier): the tier's gold multiplier takes effect
showDifficultyWarning(gm, tier) ==
    IF tier <= Len(difficultyTiers)
    THEN [gm EXCEPT !.goldMultiplier = difficultyTiers[tier].goldMult]
    ELSE gm

\* mini-boss windows of 10 ms instead of one second
MiniBossDueNarrow(gm, now) ==
    LET countdownMs == bossSpawnTime - now
    IN /\ ~gm.portalSparkTouched
       /\ ~gm.currentBoss
       /\ \/ gm.miniBossCount = 0 /\ countdownMs <= 600000 /\ countdownMs > 599990
          \/ gm.miniBossCount = 1 /\ countdownMs <= 300000 /\ countdownMs > 299990

\* Game.update: "Check for mini-boss spawn at 10:00 and 5:00 countdown"
MiniBossDue(gm, now) ==
    LET countdownMs == bossSpawnTime - now
    IN /\ ~gm.portalSparkTouched
       /\ ~gm.currentBoss
       /\ \/ gm.miniBossCount = 0 /\ countdownMs <= 600000 /\ countdownMs > 599000
          \/ gm.miniBossCount = 1 /\ countdownMs <= 300000 /\ countdownMs > 299000

\* Game.update between the clock and player.update: mini-boss count, portal
\* spark, difficulty tier
TimeGated(gm, now) ==
    LET countdownTime == bossSpawnTime - now
        newTier == (Abs(countdownTime) \div difficultyScaleInterval) + 1
        Scaled(g) ==
            IF countdownTime <= 0 /\ newTier > g.difficultyTier
                                  /\ newTier <= Len(difficultyTiers)
            THEN showDifficultyWarning([g EXCEPT !.difficultyTier = newTier], newTier)
            ELSE g
        Sparked(g) ==
            Scaled(IF countdownTime <= 0 /\ ~g.sparkSpawned /\ ~g.portal
                                         /\ ~g.portalSparkTouched /\ ~g.currentBoss
                   THEN [g EXCEPT !.sparkSpawned = TRUE]
                   ELSE g)
    IN Sparked(IF MiniBossDue(gm, now) THEN [gm EXCEPT !.miniBossCount = @ + 1] ELSE gm)

\* enemies of kind k ("isBoss" / "isMiniBoss") flagged dead in after and not in
\* before: the deaths whose callback ran during the update
NewlyDead(before, after, k) ==
    { i \in DOMAIN after :
        /\ after[i][k] /\ after[i].dead
        /\ \A j \in DOMAIN before : before[j].id = after[i].id => ~before[j].dead }

\* onBossDefeated and onMiniBossDefeated for the deaths of one update
Defeated(gm, before, after) ==
    LET Wheeled(g) ==
            [g EXCEPT !.wheels = @ + Cardinality(NewlyDead(before, after, "isMiniBoss"))]
        At(boss) ==
            [gm EXCEPT !.bossDefeated = TRUE, !.currentBoss = FALSE,
                       !.portal = TRUE, !.portalX = boss.x, !.portalY = boss.y,
                       !.goldMultiplier = difficultyTiers[1].goldMult]
    IN Wheeled(IF NewlyDead(before, after, "isBoss") # {}
               THEN At(after[CHOOSE i \in NewlyDead(before, after, "isBoss") : TRUE])
               ELSE gm)

portalRadius == 40              \* Portal constructor: radius of a constructed portal
portalReach == 20               \* Portal.update: dist < this.radius + 20
victoryCoinBonus == 500         \* Game.victory: victoryCoinBonus

\* Game.victory(); v = [game, state]. victories counts the calls, each of which
\* writes the run's coins and stats to the save
victory(v) ==
    [state |-> "victory",
     game |-> [v.game EXCEPT !.coinsCollected = @ + victoryCoinBonus,
                             !.victories = @ + 1]]

\* "if (this.portal) this.portal.update(dt)" for a constructed portal:
\* triggerVictory() when the player is within radius + 20 of it
PortalUpdate(v, pl) ==
    LET dx == pl.x - v.game.portalX
        dy == pl.y - v.game.portalY
    IN IF v.game.portal /\ dx * dx + dy * dy
                              < (portalRadius + portalReach) * (portalRadius + portalReach)
       THEN victory(v)
       ELSE v

(***************************************************************************)
(* Game.update                                                             *)
(***************************************************************************)
\* Game.update(dt): clock, player (invincibility, weapons), enemy manager,
\* projectile manager, collision resolution.  offs: the random offsets of
\* this tick's wave.
GameUpdate(dt, offs, mb) ==
    LET now == gameTime + dt
        gm == TimeGated(game, now)
        spawned == IF MiniBossDue(game, now)
                   THEN Append(enemies,
                               spawnMiniBoss(enemyIdCounter + 1,
                                             MiniBossData(player.x + mb[1], player.y + mb[2])))
                   ELSE enemies
        g0 == [enemies |-> spawned, killCount |-> killCount, state |-> state]
        Collided(pl1, wp, em, pm, ct, cc, pv) ==
            /\ gameTime' = now
            /\ player' = ct.h.player
            /\ beam' = wp.b
            /\ enemies' = cc.g.enemies
            /\ enemyIdCounter' = em.idc
            /\ spawnTimer' = em.spawnTimer
            /\ spatialHash' = em.hash
            /\ killCount' = cc.g.killCount
            /\ state' = cc.g.state
            /\ projectiles' = cc.projectiles
            /\ contactLog' = [touching |-> Touching(pl1, em.enemies), called |-> ct.called,
                              invincible |-> pl1.invincible]
            /\ hitLog' = hitLog \cup cc.log
            /\ expiredLog' = expiredLog \cup {[p EXCEPT !.removedAt = now] : p \in pm.expired}
            /\ game' = Defeated(pv.game, wp.g.enemies, cc.g.enemies)
            /\ UNCHANGED <<projCounter, bossSpawns, passives, owner, weapons, chainHits,
                           chainFires, run, timers, strays>>
        Contacted(pl1, wp, em, pm, ct, pv) ==
            Collided(pl1, wp, em, pm, ct,
                     checkEnemyCollisions(
                        [enemies |-> em.enemies, killCount |-> wp.g.killCount,
                         state |-> ct.h.state],
                        pm.projectiles, 1, {}, em.hash, ct.h.player.curse, now),
                     pv)
        Ported(pl1, wp, em, pv) ==
            Contacted(pl1, wp, em,
                      UpdateProjectiles(projectiles, 1, dt, pl1, <<>>, {}),
                      ContactLoop([player |-> pl1, state |-> pv.state], em.enemies,
                                  getEnemiesNear(em.hash, em.enemies, pl1.x, pl1.y,
                                                 contactQueryRadius(pl1)),
                                  1, {}),
                      pv)
        Spawned(pl1, wp, em) ==
            Ported(pl1, wp, em,
                   PortalUpdate([game |-> Defeated(gm, spawned, wp.g.enemies),
                                 state |-> wp.g.state], pl1))
        Armed(pl1, wp) ==
            Spawned(pl1, wp,
                    EnemyManagerUpdate(wp.g.enemies, enemyIdCounter + Len(spawned) - Len(enemies),
                                       spawnTimer, getDifficultyMultiplier(gm, now), dt,
                                       pl1, offs))
        Moved(pl1) ==
            Armed(pl1, IF beam.equipped
                       THEN VoidBeamUpdate([g |-> g0, b |-> beam], pl1, dt, pl1.curse)
                       ELSE [g |-> g0, b |-> beam])
    IN Moved(PlayerUpdate(player, dt))

(***************************************************************************)
(* States and inputs explored                                              *)
(***************************************************************************)
\* the Player constructor for a save with powerups.revival = revival, placed
\* at the centre of the map: "this.revivals = powerups.revival || 0" is
\* overwritten by the recalculateStats() call that follows it, where
\* baseRevivals is undefined, no passive is held and revivalsUsed is not yet set.
\* shopRevivals remembers the revivals bought.
PlayerConstructor(revival) ==
    [x |-> mapWidth \div 2, y |-> mapHeight \div 2, radius |-> PlayerRadius,
     facingX |-> 1, facingY |-> 0,
     hp |-> baseMaxHp, maxHp |-> baseMaxHp, armor |-> 0, curse |-> 100,
     invincible |-> FALSE, invincibilityTimer |-> 0,
     revivals |-> Max2(0, 0 + 0 - 0), revivalsUsed |-> 0,
     shopRevivals |-> revival]

\* the player as Game.startGame leaves it when no revival was bought
NewPlayer == PlayerConstructor(0)

NoContact == [touching |-> {}, called |-> {}, invincible |-> FALSE]

RECURSIVE HashOf(_, _)
\* the spatial hash EnemyManager.update leaves for a registry
HashOf(es, i) ==
    IF i = 0 THEN EmptyHash ELSE addToSpatialHash(HashOf(es, i - 1), es[i])

\* a regular enemy in mid-run: spawned by spawnEnemy, since moved and damaged
Regular(id, x, y, hp, resist, speed) ==
    [spawnEnemy(id, [ENEMIES.zombie EXCEPT !.hp = 50, !.knockbackResist = resist,
                                       !.speed = speed],
                100, NewPlayer, <<0, 0>>)
        EXCEPT !.x = x, !.y = y, !.hp = hp, !.prevX = x, !.prevY = y,
               !.lastGoodX = x, !.lastGoodY = y, !.updates = 1]

BossData(x, y) ==
    [x |-> x, y |-> y, size |-> 0, hp |-> 0, damage |-> 0, speed |-> 0]

\* enemy layouts around the player (2000, 2000)
Layouts ==
    { << Regular(1, 2021, 2000, 50, 0, 60) >>,
      << Regular(1, 2021, 2000, 50, 0, 60), Regular(2, 2025, 2000, 12, 0, 60),
         Regular(3, 2030, 2010, 50, 0, 60) >>,
      << Regular(1, 2030, 2040, 50, 50, 40), Regular(2, 2040, 2000, 50, 50, 40) >>,
      << spawnMiniBoss(1, MiniBossData(2050, 2000)) >>,
      << spawnMiniBoss(1, MiniBossData(2030, 2040)), Regular(2, 2060, 2000, 50, 0, 60) >>,
      << spawnBoss(1, BossData(2072, 2000)) >> }

NoOptions ==
    [x |-> NewPlayer.x, y |-> NewPlayer.y, dx |-> 1000, dy |-> 0, speed |-> 1200,
     damage |-> 20, pierce |-> 0, duration |-> 68, size |-> 0, width |-> 0, height |-> 0,
     type |-> "projectile", pattern |-> "linear", owner |-> FALSE, returnTime |-> 0,
     knockback |-> 20, tickRate |-> 0, hasTarget |-> FALSE, targetX |-> 0, targetY |-> 0,
     gravity |-> 0, onHit |-> "none", splashRadius |-> 0, onExpire |-> FALSE]

\* what Bone.fire passes to spawn: returnTime = duration / 2, owner = player
BoneOptions(speed, pierce) ==
    [NoOptions EXCEPT !.speed = speed, !.pierce = pierce, !.duration = WEAPONS("bone").duration,
                      !.size = 12, !.pattern = "boomerang",
                      !.returnTime = WEAPONS("bone").duration \div 2,
                      !.owner = TRUE]

SpawnOptions ==
    { [NoOptions EXCEPT !.pierce = n] : n \in {0, 2} }
    \cup { [NoOptions EXCEPT !.dx = 600, !.dy = 800, !.pierce = 2] }
    \cup { [NoOptions EXCEPT !.pierce = 2, !.onHit = "splash", !.splashRadius = 60,
                             !.onExpire = TRUE] }
    \cup { BoneOptions(v, 3) : v \in {1200, 4000} }
    \cup { [BoneOptions(1200, 3) EXCEPT !.owner = FALSE] }

\* random spawn offsets of a wave of n enemies: for each enemy an angle and a
\* distance spawnDistance + random * 100
WaveOffsets(n) ==
    { [i \in 1..n |-> <<spawnDistance + 15 * i, 0>>],
      [i \in 1..n |-> <<0, -(spawnDistance + 15 * i)>>],
      [i \in 1..n |-> IF i % 2 = 1 THEN <<spawnDistance, 0>> ELSE <<-spawnDistance, 0>>] }

bossSpawnDistance == 400        \* Game.spawnBoss / spawnMiniBoss: distance

\* the point at bossSpawnDistance from the player, for two angles each
BossSpawnOffsets ==
    { <<bossSpawnDistance, 0>>,
      <<(bossSpawnDistance * 3) \div 5, (bossSpawnDistance * 4) \div 5>> }

MiniBossSpawnOffsets == { <<0, bossSpawnDistance>>, <<-bossSpawnDistance, 0>> }

Quiet ==
    /\ passives = <<>>
    /\ owner = PlayerRecalculateStats(<<>>)
    /\ weapons = <<>>
    /\ chainHits = <<>>
    /\ chainFires = 0
    /\ beam = NoBeam

\* a run in progress outside any frame, nothing deferred
Idle == [stepping |-> FALSE, steps |-> 0, budget |-> 0, startState |-> "playing",
         startTime |-> 0, startAcc |-> 0, count |-> 0]

Calm ==
    /\ game = NewGame
    /\ accumulator = 0
    /\ frame = Idle
    /\ run = 1
    /\ timers = {}
    /\ strays = {}

(***************************************************************************)
(* Actions                                                                 *)
(***************************************************************************)
\* one fixed step of Game.gameLoop while PLAYING
FixedStep ==
    LET now == gameTime + FixedDeltaTime
        due == MiniBossDue(game, now)
    IN \E mb \in IF due THEN MiniBossSpawnOffsets ELSE {<<0, 0>>} :
          IF WaveDue(Len(enemies) + (IF due THEN 1 ELSE 0), FixedDeltaTime)
          THEN \E offs \in WaveOffsets(waveCount(
                                getDifficultyMultiplier(TimeGated(game, now), now))) :
                   GameUpdate(FixedDeltaTime, offs, mb)
          ELSE GameUpdate(FixedDeltaTime, <<>>, mb)

\* a fixed step taken on its own: the frame loop is left out
Tick ==
    /\ FixedStep
    /\ UNCHANGED <<accumulator, frame>>

Update ==
    /\ state = "playing"
    /\ gameTime < MaxTicks * FixedDeltaTime
    /\ Tick

\* ProjectileManager.spawn(options), called by a weapon's fire()
Spawn ==
    /\ state = "playing"
    /\ projCounter < MaxSpawns
    /\ \E options \in SpawnOptions :
          /\ projectiles' =
                Append(IF Len(projectiles) >= maxProjectiles THEN Tail(projectiles)
                       ELSE projectiles,
                       [spawn(projCounter + 1, options) EXCEPT !.born = gameTime])
          /\ projCounter' = projCounter + 1
    /\ UNCHANGED <<state, gameTime, killCount, player, enemies, enemyIdCounter,
                   spawnTimer, spatialHash, bossSpawns, contactLog, hitLog,
                   expiredLog, passives, owner, weapons, chainHits,
                   chainFires, beam, game, accumulator, frame, run, timers, strays>>

\* the projectile simulation, started in mid-run just after a wave
InitSim ==
    /\ state = "playing"
    /\ gameTime = 0
    /\ killCount = 0
    /\ player = NewPlayer
    /\ enemies \in Layouts
    /\ enemyIdCounter = Len(enemies)
    /\ spawnTimer = baseSpawnInterval
    /\ spatialHash = HashOf(enemies, Len(enemies))
    /\ projectiles = <<>>
    /\ projCounter = 0
    /\ bossSpawns = 0
    /\ contactLog = NoContact
    /\ hitLog = {}
    /\ expiredLog = {}
    /\ Quiet
    /\ Calm

NextSim == Update \/ Spawn

SpecSim == InitSim /\ [][NextSim]_vars

(***************************************************************************)
(* C1: pierce limit                                                        *)
(***************************************************************************)
EverSpawned == Range(projectiles) \cup expiredLog

\* C1: over its whole life a projectile damages by collision at most `pierce`
\* distinct enemies; when pierceCount reaches pierce it is expired in that same
\* collision pass (age = duration), its pierceCount never passes the limit, and
\* a projectile found exhausted in the registry was exhausted by the pass of the
\* tick just run, so the next ProjectileManager.update removes it.
C1_PierceLimit ==
    /\ \A p \in EverSpawned :
          /\ Cardinality(p.damaged) <= p.pierce
          /\ p.pierceCount <= p.pierce
          /\ p.pierceCount >= p.pierce => p.age >= p.duration /\ p.exhaustedAt >= 0
    /\ \A i \in DOMAIN projectiles :
          projectiles[i].pierceCount >= projectiles[i].pierce
             => projectiles[i].exhaustedAt = gameTime

\* a projectile of pierce 2 has just damaged two enemies and is expired while a
\* third live enemy still overlaps it undamaged
C1_Witness ==
    \E i \in DOMAIN projectiles :
       LET p == projectiles[i]
       IN /\ p.pierce = 2
          /\ Cardinality(p.damaged) = 2
          /\ p.exhaustedAt = gameTime
          /\ \E j \in DOMAIN enemies :
                /\ ~enemies[j].dead
                /\ enemies[j].id \notin p.damaged
                /\ Overlaps(p, enemies[j])

(***************************************************************************)
(* The player's build: weapons, passives and the weapons' cooldown cycles  *)
(***************************************************************************)
Still ==
    /\ state = "playing"
    /\ killCount = 0
    /\ player = NewPlayer
    /\ enemies = <<>>
    /\ enemyIdCounter = 0
    /\ spawnTimer = baseSpawnInterval
    /\ spatialHash = EmptyHash
    /\ projectiles = <<>>
    /\ projCounter = 0
    /\ bossSpawns = 0
    /\ contactLog = NoContact
    /\ hitLog = {}
    /\ expiredLog = {}

\* the upgrades a level-up can offer
Upgrades ==
    { [type |-> "weapon", id |-> id] : id \in WeaponIds }
    \cup { [type |-> "passive", id |-> id] : id \in PassiveIds }

RECURSIVE LevelSum(_, _)
LevelSum(seq, i) == IF i > Len(seq) THEN 0 ELSE seq[i].level + LevelSum(seq, i + 1)

\* an upgrade is offered only below the item's maxLevel
Offered(upgrade) ==
    IF upgrade.type = "weapon"
    THEN HasWeapon(weapons, upgrade.id)
            => weapons[IndexOfId(weapons, upgrade.id)].level < WEAPONS(upgrade.id).maxLevel
    ELSE HasPassive(passives, upgrade.id)
            => passives[IndexOfId(passives, upgrade.id)].level < PASSIVES(upgrade.id).maxLevel

\* Player.applyUpgrade(upgrade), on a level-up choice
ApplyUpgrade ==
    /\ LevelSum(weapons, 1) + LevelSum(passives, 1) < MaxUpgrades
    /\ \E upgrade \in Upgrades :
          /\ Offered(upgrade)
          /\ LET r == applyUpgrade([weapons |-> weapons, passives |-> passives,
                                    owner |-> owner], upgrade)
             IN /\ weapons' = r.weapons
                /\ passives' = r.passives
                /\ owner' = r.owner
    /\ UNCHANGED <<state, gameTime, killCount, player, enemies, enemyIdCounter,
                   spawnTimer, spatialHash, projectiles, projCounter, bossSpawns,
                   contactLog, hitLog, expiredLog, chainHits,
                   chainFires, beam, game, accumulator, frame, run, timers, strays>>

\* "for (const weapon of this.weapons) weapon.update(dt)" of Player.update,
\* once per fixed step
UpdateWeapons ==
    /\ gameTime < MaxWeaponTicks * FixedDeltaTime
    /\ weapons # <<>>
    /\ gameTime' = gameTime + FixedDeltaTime
    /\ weapons' = [i \in DOMAIN weapons |-> WeaponUpdate(weapons[i], FixedDeltaTime)]
    /\ UNCHANGED <<state, killCount, player, enemies, enemyIdCounter, spawnTimer,
                   spatialHash, projectiles, projCounter, bossSpawns, contactLog,
                   hitLog, expiredLog, passives, owner, chainHits,
                   chainFires, beam, game, accumulator, frame, run, timers, strays>>

\* new Player(): no weapon, no passive, every multiplier 1
InitWeapon ==
    /\ Still
    /\ gameTime = 0
    /\ Quiet
    /\ Calm

NextWeapon == ApplyUpgrade \/ UpdateWeapons

SpecWeapon == InitWeapon /\ [][NextWeapon]_vars

(***************************************************************************)
(* C3: derived stats follow the owner                                      *)
(***************************************************************************)
\* C3: each equipped weapon's derived stats equal the function of its base
\* stats, its upgrade entries [0, level - 1) and the player's current
\* multipliers, also after a passive was added or levelled.
C3_DerivedStatsCurrent ==
    \A i \in DOMAIN weapons :
       weapons[i].stats = recalculateStats(weapons[i].id, weapons[i].level, owner)

(***************************************************************************)
(* C4: the damage and cooldown formulas                                    *)
(***************************************************************************)
RECURSIVE SumDamage(_, _)
\* sum of upgrades[i].damage over the first n entries
SumDamage(ups, n) == IF n = 0 THEN 0 ELSE ups[n].damage + SumDamage(ups, n - 1)

RECURSIVE ProductCooldown(_, _)
\* product of (1 + upgrades[i].cooldown) over the first n entries, in 10^-n
ProductCooldown(ups, n) ==
    IF n = 0 THEN 1 ELSE (10 + ups[n].cooldown) * ProductCooldown(ups, n - 1)

\* C4: at every level L in 1..maxLevel the stats recalculateStats left are
\* damage = (baseDamage + sum of upgrades[i].damage, i < L - 1) * owner damage
\* and cooldown = max(50, baseCooldown * product of (1 + upgrades[i].cooldown),
\* i < L - 1, * owner cooldown), for the owner multipliers it read; the
\* cooldown is never below 50 ms.
C4_DamageAndCooldown ==
    \A i \in DOMAIN weapons :
       LET w == weapons[i]
           data == WEAPONS(w.id)
           n == w.level - 1
           o == w.recalcOwner
       IN /\ w.level \in 1..data.maxLevel
          /\ w.stats.damage = (data.baseDamage + SumDamage(data.upgrades, n)) * o.damage
          /\ w.stats.cooldown * Pow10(n) =
                Max2(minCooldown * CdScale * Pow10(n),
                     data.baseCooldown * ProductCooldown(data.upgrades, n)
                        * (CdScale \div 10) * o.cooldown)
          /\ w.stats.cooldown >= minCooldown * CdScale

\* a weapon at its top level whose cooldown was driven below the floor by its
\* upgrades and a cooldown passive, and whose damage carries an upgrade and a
\* damage passive
C4_Witness ==
    \E i, j \in DOMAIN weapons :
       /\ weapons[i].level = WEAPONS(weapons[i].id).maxLevel
       /\ weapons[i].stats.cooldown = minCooldown * CdScale
       /\ WEAPONS(weapons[i].id).baseCooldown
             * ProductCooldown(WEAPONS(weapons[i].id).upgrades, weapons[i].level - 1)
             * (CdScale \div 10) * weapons[i].recalcOwner.cooldown
               < minCooldown * CdScale * Pow10(weapons[i].level - 1)
       /\ weapons[j].level >= 2
       /\ weapons[j].recalcOwner.damage > 10
       /\ SumDamage(WEAPONS(weapons[j].id).upgrades, weapons[j].level - 1) > 0

(***************************************************************************)
(* C5: the cooldown cycle                                                  *)
(***************************************************************************)
\* C5: Weapon.update(dt) takes dt off the timer and fires if and only if the
\* timer is then <= 0, once; after a firing the timer is the weapon's current
\* derived cooldown; a levelUp leaves the running timer as it was.
C5_CooldownCycle ==
    \A i \in DOMAIN weapons :
       LET w == weapons[i]
           t == w.last.before - w.last.dt * CdScale
       IN /\ w.last.op = "update" =>
                /\ w.last.fires = (IF t <= 0 THEN 1 ELSE 0)
                /\ w.cooldownTimer = (IF t <= 0 THEN w.stats.cooldown ELSE t)
          /\ w.last.op = "levelUp" =>
                /\ w.last.fires = 0
                /\ w.cooldownTimer = w.last.before
          /\ w.fireCount * FixedDeltaTime <= gameTime

\* a weapon fired, was levelled up during the cycle, and has just fired again:
\* its timer is the cooldown of the new level, not the one it had run with
C5_Witness ==
    \E i \in DOMAIN weapons :
       LET w == weapons[i]
       IN /\ w.fireCount >= 2
          /\ w.level >= 2
          /\ w.last.op = "update" /\ w.last.fires = 1
          /\ w.cooldownTimer = w.stats.cooldown
          /\ w.stats.cooldown # recalculateStats(w.id, 1, w.recalcOwner).cooldown

(***************************************************************************)
(* Chain lightning among a group of enemies                                *)
(***************************************************************************)
\* this.damage, this.level and this.projectiles of the ChainLightning weapon
ChainBuilds ==
    { [damage |-> d, level |-> l, projectiles |-> n] :
         d \in {10, 60}, l \in {1, 2}, n \in {1, 2} }

\* ChainLightning.fire(), called by Weapon.update when the cooldown has run out
ChainFire ==
    /\ state = "playing"
    /\ chainFires < MaxChainFires
    /\ enemies # <<>>
    /\ \E w \in ChainBuilds :
          LET r == ChainLightningFire([enemies |-> enemies, killCount |-> killCount,
                                       state |-> state],
                                      spatialHash, player, w.damage, w.level,
                                      w.projectiles, player.curse)
          IN /\ enemies' = r.g.enemies
             /\ killCount' = r.g.killCount
             /\ state' = r.g.state
             /\ chainHits' = r.hits
    /\ chainFires' = chainFires + 1
    /\ UNCHANGED <<gameTime, player, enemyIdCounter, spawnTimer, spatialHash,
                   projectiles, projCounter, bossSpawns, contactLog, hitLog,
                   expiredLog, passives, owner, weapons, beam, game,
                   accumulator, frame, run, timers, strays>>

\* one fixed step of Game.gameLoop between two firings
ChainTick ==
    /\ state = "playing"
    /\ gameTime < MaxChainTicks * FixedDeltaTime
    /\ Tick

\* enemies in two cells of the grid: the cell scanned first holds the farther one
ChainLayouts ==
    { << Regular(1, 2021, 2000, 50, 0, 60), Regular(2, 1950, 2100, 50, 0, 60),
         Regular(3, 2040, 2000, 50, 0, 60) >> }

InitChain ==
    /\ state = "playing"
    /\ gameTime = 0
    /\ killCount = 0
    /\ player = NewPlayer
    /\ enemies \in Layouts \cup ChainLayouts
    /\ enemyIdCounter = Len(enemies)
    /\ spawnTimer = baseSpawnInterval
    /\ spatialHash = HashOf(enemies, Len(enemies))
    /\ projectiles = <<>>
    /\ projCounter = 0
    /\ bossSpawns = 0
    /\ contactLog = NoContact
    /\ hitLog = {}
    /\ expiredLog = {}
    /\ Quiet
    /\ Calm

NextChain == ChainFire \/ ChainTick

SpecChain == InitChain /\ [][NextChain]_vars

(***************************************************************************)
(* C6: chain lightning damages an enemy once                               *)
(***************************************************************************)
\* C6: one call of ChainLightning.fire, whatever the projectile count and the
\* enemy layout, never applies damage to the same enemy id twice.
C6_NoRepeatedDamage ==
    \A i, j \in DOMAIN chainHits : i # j => chainHits[i] # chainHits[j]

(***************************************************************************)
(* The void beam                                                           *)
(***************************************************************************)
\* this.cooldown (never below minCooldown), this.duration and this.damage of
\* the VoidBeam weapon
BeamBuilds ==
    { [NoBeam EXCEPT !.equipped = TRUE, !.cooldown = t[1], !.duration = t[2],
                     !.damage = d] :
         t \in { <<51, 68>>, <<85, 34>>, <<51, 34>> }, d \in {20, 60} }

\* one fixed step of Game.gameLoop with the VoidBeam equipped
BeamTick ==
    /\ state = "playing"
    /\ gameTime < MaxBeamTicks * FixedDeltaTime
    /\ Tick

InitBeam ==
    /\ state = "playing"
    /\ gameTime = 0
    /\ killCount = 0
    /\ player = NewPlayer
    /\ enemies \in Layouts
    /\ enemyIdCounter = Len(enemies)
    /\ spawnTimer = baseSpawnInterval
    /\ spatialHash = HashOf(enemies, Len(enemies))
    /\ projectiles = <<>>
    /\ projCounter = 0
    /\ bossSpawns = 0
    /\ contactLog = NoContact
    /\ hitLog = {}
    /\ expiredLog = {}
    /\ passives = <<>>
    /\ owner = PlayerRecalculateStats(<<>>)
    /\ weapons = <<>>
    /\ chainHits = <<>>
    /\ chainFires = 0
    /\ beam \in BeamBuilds
    /\ Calm

NextBeam == BeamTick

SpecBeam == InitBeam /\ [][NextBeam]_vars

(***************************************************************************)
(* C7: one beam activation                                                 *)
(***************************************************************************)
HitsOf(id) == Cardinality({ k \in DOMAIN beam.hits : beam.hits[k] = id })

\* C7: during one beam activation an enemy that is inside the beam on every
\* pass is damaged exactly once and no enemy more than once; fire() never runs
\* while beamActive is true, and while the beam is active its hit set holds
\* every enemy the activation has damaged.
C7_BeamHitsOnce ==
    /\ ~beam.firedWhileActive
    /\ \A id \in Range(beam.hits) : HitsOf(id) = 1
    /\ beam.passes >= 1 => \A id \in beam.inside : HitsOf(id) = 1
    /\ beam.beamActive => Range(beam.hits) \subseteq beam.hitEnemies
    /\ beam.beamActive => beam.beamTimer > 0

\* an activation in at least its third pass, its cooldown already run out,
\* over a live enemy that has been inside the beam on every pass
C7_Witness ==
    /\ beam.beamActive
    /\ beam.passes >= 3
    /\ beam.cooldownTimer <= 0
    /\ \E i \in DOMAIN enemies :
          /\ ~enemies[i].dead
          /\ enemies[i].id \in beam.inside

(***************************************************************************)
(* C8: a boomerang terminates                                              *)
(***************************************************************************)
\* a boomerang as Bone.fire spawns it: returnTime = duration / 2
IsBone(p) == p.pattern = "boomerang" /\ p.returnTime = p.duration \div 2

\* C8: a boomerang fired with returnTime = duration / 2 from a stationary owner
\* terminates.  Its age never lags the time since it was spawned and never
\* passes its duration while it is in the registry; a returning boomerang still
\* short of its duration was at least 30 units from the owner when it last
\* stepped; and every boomerang removed was removed by the first update that
\* found it at the end of its duration, at most duration ms (rounded up to a
\* tick) after its spawn.
C8_BoomerangTerminates ==
    /\ \A i \in DOMAIN projectiles :
          LET p == projectiles[i]
              px == p.x - Step(p.dx, p.speed, FixedDeltaTime)
              py == p.y - Step(p.dy, p.speed, FixedDeltaTime)
          IN IsBone(p) =>
                /\ gameTime - p.born <= p.age
                /\ p.age <= p.duration
                /\ p.returning /\ p.owner /\ p.age < p.duration
                      => (px - player.x) * (px - player.x)
                            + (py - player.y) * (py - player.y)
                              >= BoomerangSnapRadius * BoomerangSnapRadius
    /\ \A p \in expiredLog :
          IsBone(p) =>
             /\ p.age >= p.duration
             /\ p.removedAt - p.born < p.duration + FixedDeltaTime

\* a returning boomerang came within 30 units of its owner and was removed by
\* the next update, before its duration had run out
C8_Witness ==
    \E p \in expiredLog :
       /\ IsBone(p) /\ p.owner /\ p.returning
       /\ p.removedAt - p.born < p.duration
       /\ (p.x - player.x) * (p.x - player.x) + (p.y - player.y) * (p.y - player.y)
             < BoomerangSnapRadius * BoomerangSnapRadius

(***************************************************************************)
(* C9: knockback of a hit                                                  *)
(***************************************************************************)
\* the hit's numbers are exact in whole units: the distance is an integer, the
\* enemy is not at the projectile's centre, and K * (1 - R) and the two
\* components of the force are integers
ExactHit(h) ==
    LET d2 == h.dx * h.dx + h.dy * h.dy
        d == ISqrt(d2)
        f == h.K * (100 - h.R)
    IN /\ d2 > 0
       /\ d * d = d2
       /\ f % 100 = 0
       /\ (h.dx * (f \div 100)) % d = 0
       /\ (h.dy * (f \div 100)) % d = 0
       /\ (f \div 100) % 2 = 0

\* C9: a hit by a projectile of knockback K on an enemy of any kind whose
\* knockbackResist is R grows the enemy's knockback accumulator by a vector of
\* magnitude exactly K * (1 - R) along the enemy-minus-projectile direction.
C9_KnockbackMagnitude ==
    \A h \in hitLog :
       ExactHit(h) =>
          /\ 10000 * (h.kx * h.kx + h.ky * h.ky)
                = (h.K * (100 - h.R)) * (h.K * (100 - h.R))
          /\ h.kx * h.dy = h.ky * h.dx
          /\ h.kx * h.dx + h.ky * h.dy >= 0

(***************************************************************************)
(* C10: contact damage                                                     *)
(***************************************************************************)
\* C10: in the collision phase of every tick, each live enemy whose centre is
\* closer to the player than player.radius + enemy.radius has its damage passed
\* to player.takeDamage.
C10_ContactDamage == contactLog.touching \subseteq contactLog.called

(***************************************************************************)
(* The enemy registry and its grid, from the start of a run                *)
(***************************************************************************)
\* Game.spawnBoss(): EnemyManager.spawnBoss at bossSpawnDistance from the player
SpawnBoss ==
    /\ state = "playing"
    /\ bossSpawns < MaxBossSpawns
    /\ \E off \in BossSpawnOffsets :
          LET enemy == spawnBoss(enemyIdCounter + 1,
                                 BossData(player.x + off[1], player.y + off[2]))
          IN /\ enemies' = Append(enemies, enemy)
             /\ spatialHash' = addToSpatialHash(spatialHash, enemy)
    /\ enemyIdCounter' = enemyIdCounter + 1
    /\ bossSpawns' = bossSpawns + 1
    /\ UNCHANGED <<state, gameTime, killCount, player, spawnTimer, projectiles,
                   projCounter, contactLog, hitLog, expiredLog, passives, owner,
                   weapons, chainHits,
                   chainFires, beam, game, accumulator, frame, run, timers, strays>>

\* Game.spawnMiniBoss(): EnemyManager.spawnMiniBoss at the same distance
SpawnMiniBoss ==
    /\ state = "playing"
    /\ bossSpawns < MaxBossSpawns
    /\ \E off \in MiniBossSpawnOffsets, speed \in {MiniBossData(0, 0).speed, NaN} :
          LET enemy == spawnMiniBoss(enemyIdCounter + 1,
                                     [MiniBossData(player.x + off[1], player.y + off[2])
                                         EXCEPT !.speed = speed])
          IN /\ enemies' = Append(enemies, enemy)
             /\ spatialHash' = addToSpatialHash(spatialHash, enemy)
    /\ enemyIdCounter' = enemyIdCounter + 1
    /\ bossSpawns' = bossSpawns + 1
    /\ UNCHANGED <<state, gameTime, killCount, player, spawnTimer, projectiles,
                   projCounter, contactLog, hitLog, expiredLog, passives, owner,
                   weapons, chainHits,
                   chainFires, beam, game, accumulator, frame, run, timers, strays>>

\* this.damage of the striking weapon: lethal to any enemy
StrikeDamages == {20000}

\* enemy.takeDamage(amount) from a weapon that strikes an enemy directly
\* (Lightning): EnemyManager.damageEnemy
Strike ==
    /\ state = "playing"
    /\ killCount < MaxKills
    /\ \E i \in DOMAIN enemies, amount \in StrikeDamages :
          LET g == damageEnemy([enemies |-> enemies, killCount |-> killCount,
                                state |-> state],
                               enemies[i].id, amount, player.curse)
          IN /\ ~enemies[i].dead
             /\ enemies' = g.enemies
             /\ killCount' = g.killCount
             /\ state' = g.state
    /\ UNCHANGED <<gameTime, player, enemyIdCounter, spawnTimer, spatialHash,
                   projectiles, projCounter, bossSpawns, contactLog, hitLog,
                   expiredLog, passives, owner, weapons, chainHits,
                   chainFires, beam, game, accumulator, frame, run, timers, strays>>

\* one fixed step of Game.gameLoop in the first moments of a run
FirstUpdates ==
    /\ state = "playing"
    /\ gameTime < MaxGridTicks * FixedDeltaTime
    /\ Tick

\* the state Game.startGame leaves: empty registry, spawn timer 0
InitGrid ==
    /\ state = "playing"
    /\ gameTime = 0
    /\ killCount = 0
    /\ player = NewPlayer
    /\ enemies = <<>>
    /\ enemyIdCounter = 0
    /\ spawnTimer = 0
    /\ spatialHash = EmptyHash
    /\ projectiles = <<>>
    /\ projCounter = 0
    /\ bossSpawns = 0
    /\ contactLog = NoContact
    /\ hitLog = {}
    /\ expiredLog = {}
    /\ Quiet
    /\ Calm

NextGrid == FirstUpdates \/ SpawnBoss \/ SpawnMiniBoss \/ Strike

SpecGrid == InitGrid /\ [][NextGrid]_vars

(***************************************************************************)
(* C2: the grid lookup against a linear scan                               *)
(***************************************************************************)
\* query circles <<x, y, r>>: around the spawn ring, across cell borders, on
\* the boundary r = distance and just inside it
Queries ==
    { <<2550, 2000, 64>>, <<2000, 2000, 400>>, <<2000, 2000, 399>>,
      <<2000, 1380, 100>>, <<2300, 2300, 150>>, <<1500, 2000, 110>>,
      <<2700, 2100, 120>> }

LinearScan(x, y, r) ==
    { enemies[i].id :
        i \in { j \in DOMAIN enemies :
                  /\ ~enemies[j].dead
                  /\ (enemies[j].x - x) * (enemies[j].x - x)
                       + (enemies[j].y - y) * (enemies[j].y - y) <= r * r } }

\* C2: whatever ticks, wave / boss / mini-boss spawns and deaths came before,
\* getEnemiesNear(x, y, r) returns exactly the registry's live enemies whose
\* centre is at squared distance <= r * r from (x, y), each of them once.
C2_GridEqualsScan ==
    \A q \in Queries :
       LET near == getEnemiesNear(spatialHash, enemies, q[1], q[2], q[3])
       IN /\ Range(near) = LinearScan(q[1], q[2], q[3])
          /\ Cardinality(Range(near)) = Len(near)

\* after a tick, with a dead enemy still in the registry and a boss or
\* mini-boss spawned, a query returns several enemies from different cells and
\* leaves out a dead enemy lying inside its circle
C2_Witness ==
    /\ gameTime > 0
    /\ \E i \in DOMAIN enemies : enemies[i].type # "zombie"
    /\ \E q \in Queries :
          LET near == getEnemiesNear(spatialHash, enemies, q[1], q[2], q[3])
          IN /\ Len(near) >= 2
             /\ \E a, b \in Range(near) :
                   CellKey(EnemyById(enemies, a).x, EnemyById(enemies, a).y)
                      # CellKey(EnemyById(enemies, b).x, EnemyById(enemies, b).y)
             /\ \E i \in DOMAIN enemies :
                   /\ enemies[i].dead
                   /\ (enemies[i].x - q[1]) * (enemies[i].x - q[1])
                        + (enemies[i].y - q[2]) * (enemies[i].y - q[2]) <= q[3] * q[3]

(***************************************************************************)
(* The frame loop and the state machine of a run                           *)
(***************************************************************************)
MaxFrames == 3
MaxRuns == 2

\* a frame delta that is taken as it comes
clampedDeltaUnbounded(deltaTime) == deltaTime

\* "Prevent spiral of death": clampedDelta = Math.min(deltaTime, 250)
clampedDelta(deltaTime) == Min2(deltaTime, 250)

\* time between two animation frames, in ms: none, less than a step, one
\* step, two steps and a rest, a stall
Deltas == {0, 5, 17, 40, 300}

\* Game.gameLoop(currentTime) up to its while loop.  frame remembers what the
\* frame started from; the loop body is FrameStep, and while frame.stepping
\* holds nothing else runs (the whole callback is one task of the event loop).
GameLoop ==
    /\ ~frame.stepping
    /\ state # "menu"
    /\ frame.count < MaxFrames
    /\ \E deltaTime \in Deltas :
          LET acc == IF state = "playing"
                     THEN accumulator + clampedDelta(deltaTime)
                     ELSE accumulator
          IN /\ accumulator' = acc
             /\ frame' = [stepping |-> state = "playing" /\ acc >= FixedDeltaTime,
                          steps |-> 0,
                          budget |-> (accumulator + Min2(deltaTime, 250)) \div FixedDeltaTime,
                          startState |-> state, startTime |-> gameTime,
                          startAcc |-> accumulator, count |-> frame.count + 1]
    /\ UNCHANGED <<state, gameTime, killCount, player, enemies, enemyIdCounter,
                   spawnTimer, spatialHash, projectiles, projCounter, bossSpawns,
                   contactLog, hitLog, expiredLog, passives, owner, weapons,
                   chainHits, chainFires, beam, game, run, timers, strays>>

\* one turn of "while (this.accumulator >= this.fixedDeltaTime)"; the loop does
\* not look at this.state
FrameStep ==
    /\ frame.stepping
    /\ FixedStep
    /\ accumulator' = accumulator - FixedDeltaTime
    /\ frame' = [frame EXCEPT !.steps = @ + 1,
                              !.stepping = accumulator - FixedDeltaTime >= FixedDeltaTime]

\* Game.pause()
Pause ==
    /\ ~frame.stepping
    /\ state = "playing"
    /\ state' = "paused"
    /\ UNCHANGED <<gameTime, killCount, player, enemies, enemyIdCounter,
                   spawnTimer, spatialHash, projectiles, projCounter, bossSpawns,
                   contactLog, hitLog, expiredLog, passives, owner, weapons,
                   chainHits, chainFires, beam, game, accumulator, frame, run, timers,
                   strays>>

\* Game.resume()
Resume ==
    /\ ~frame.stepping
    /\ state = "paused"
    /\ state' = "playing"
    /\ UNCHANGED <<gameTime, killCount, player, enemies, enemyIdCounter,
                   spawnTimer, spatialHash, projectiles, projCounter, bossSpawns,
                   contactLog, hitLog, expiredLog, passives, owner, weapons,
                   chainHits, chainFires, beam, game, accumulator, frame, run, timers,
                   strays>>

\* the callback onMiniBossDefeated gave to showGoldWheelSpin, run by the wheel
\* when its animation ends: setState(PLAYING), then setTimeout(..., 100).  A
\* callback that outlives its run (state MENU, player null) is not followed.
WheelDone ==
    /\ ~frame.stepping
    /\ state # "menu"
    /\ game.wheels > 0
    /\ state' = "playing"
    /\ game' = [game EXCEPT !.wheels = @ - 1]
    /\ timers' = timers \cup {[kind |-> "levelUp", run |-> run, i |-> game.wheels]}
    /\ UNCHANGED <<gameTime, killCount, player, enemies, enemyIdCounter,
                   spawnTimer, spatialHash, projectiles, projCounter, bossSpawns,
                   contactLog, hitLog, expiredLog, passives, owner, weapons,
                   chainHits, chainFires, beam, accumulator, frame, run, strays>>

\* the timer of onMiniBossDefeated: player.levelUp(); triggerLevelUp()
LevelUpTimer ==
    /\ ~frame.stepping
    /\ state # "menu"
    /\ \E t \in timers :
          /\ t.kind = "levelUp"
          /\ timers' = timers \ {t}
    /\ state' = "levelUp"
    /\ UNCHANGED <<gameTime, killCount, player, enemies, enemyIdCounter,
                   spawnTimer, spatialHash, projectiles, projCounter, bossSpawns,
                   contactLog, hitLog, expiredLog, passives, owner, weapons,
                   chainHits, chainFires, beam, game, accumulator, frame, run, strays>>

\* Game.selectUpgrade(upgrade), from the level-up menu (not shown while the
\* gold wheel spins)
SelectUpgrade ==
    /\ ~frame.stepping
    /\ state = "levelUp"
    /\ game.wheels = 0
    /\ \E upgrade \in {[type |-> "passive", id |-> "spinach"]} :
          LET r == applyUpgrade([weapons |-> weapons, passives |-> passives,
                                 owner |-> owner], upgrade)
          IN /\ weapons' = r.weapons
             /\ passives' = r.passives
             /\ owner' = r.owner
    /\ state' = "playing"
    /\ UNCHANGED <<gameTime, killCount, player, enemies, enemyIdCounter,
                   spawnTimer, spatialHash, projectiles, projCounter, bossSpawns,
                   contactLog, hitLog, expiredLog, chainHits, chainFires, beam, game,
                   accumulator, frame, run, timers, strays>>

\* Game.quitToMenu(): state MENU; player and the three managers become null
\* (the registries are gone; state = "menu" stands for the null managers)
QuitToMenu ==
    /\ ~frame.stepping
    /\ state # "menu"
    /\ state' = "menu"
    /\ enemies' = <<>>
    /\ spatialHash' = EmptyHash
    /\ projectiles' = <<>>
    /\ UNCHANGED <<gameTime, killCount, player, enemyIdCounter, spawnTimer,
                   projCounter, bossSpawns, contactLog, hitLog, expiredLog, passives,
                   owner, weapons, chainHits, chainFires, beam, game, accumulator,
                   frame, run, timers, strays>>

\* Game.startGame(): from the menu, or from the game-over / victory screen
StartGame ==
    /\ ~frame.stepping
    /\ state \in {"menu", "gameOver", "victory"}
    /\ run < MaxRuns
    /\ state' = "playing"
    /\ gameTime' = 0
    /\ killCount' = 0
    /\ game' = [NewGame EXCEPT !.wheels = game.wheels]
    /\ player' = NewPlayer
    /\ passives' = <<>>
    /\ owner' = PlayerRecalculateStats(<<>>)
    /\ weapons' = <<>>
    /\ enemies' = <<>>
    /\ spatialHash' = EmptyHash
    /\ spawnTimer' = 0
    /\ projectiles' = <<>>
    /\ contactLog' = NoContact
    /\ accumulator' = 0
    /\ frame' = [Idle EXCEPT !.count = frame.count]
    /\ run' = run + 1
    /\ UNCHANGED <<enemyIdCounter, projCounter, bossSpawns, hitLog, expiredLog,
                   chainHits, chainFires, beam, timers, strays>>

\* a mid-run enemy: moved before, hp left
Seasoned(e, hp) ==
    [e EXCEPT !.hp = hp, !.lastGoodX = e.x, !.lastGoodY = e.y, !.updates = 1]

\* runs in progress: just started; just before the first mini-boss is due,
\* with a wave due; just before the countdown reaches zero, the player and a
\* mini-boss both nearly dead, an enemy at the player and a shot on its way
Scenarios ==
    { [time |-> 0, spawnTimer |-> 0, hp |-> baseMaxHp, miniBossCount |-> 0,
       enemies |-> <<>>, projectiles |-> <<>>],
      [time |-> 17647 * FixedDeltaTime, spawnTimer |-> FixedDeltaTime, hp |-> 10,
       miniBossCount |-> 0,
       enemies |-> << Regular(1, 2000, 2021, 50, 0, 60) >>, projectiles |-> <<>>],
      [time |-> 52940 * FixedDeltaTime, spawnTimer |-> baseSpawnInterval, hp |-> 10,
       miniBossCount |-> 2,
       enemies |-> << Regular(1, 2000, 2021, 50, 0, 60),
                      Seasoned(spawnMiniBoss(2, MiniBossData(2050, 2000)), 15) >>,
       projectiles |-> << [spawn(1, NoOptions) EXCEPT !.born = 52940 * FixedDeltaTime] >>] }

InitRun ==
    /\ \E sc \in Scenarios :
          /\ gameTime = sc.time
          /\ spawnTimer = sc.spawnTimer
          /\ player = [NewPlayer EXCEPT !.hp = sc.hp]
          /\ enemies = sc.enemies
          /\ projectiles = sc.projectiles
          /\ game = [NewGame EXCEPT !.miniBossCount = sc.miniBossCount]
          /\ frame = [Idle EXCEPT !.startTime = sc.time]
    /\ state = "playing"
    /\ killCount = 0
    /\ enemyIdCounter = Len(enemies)
    /\ spatialHash = HashOf(enemies, Len(enemies))
    /\ projCounter = Len(projectiles)
    /\ bossSpawns = 0
    /\ contactLog = NoContact
    /\ hitLog = {}
    /\ expiredLog = {}
    /\ Quiet
    /\ accumulator = 0
    /\ run = 1
    /\ timers = {}
    /\ strays = {}

NextRun ==
    \/ GameLoop \/ FrameStep \/ Pause \/ Resume \/ WheelDone \/ LevelUpTimer
    \/ SelectUpgrade \/ QuitToMenu \/ StartGame

SpecRun == InitRun /\ [][NextRun]_vars

(***************************************************************************)
(* C15: the accumulator                                                    *)
(***************************************************************************)
\* C15: for non-negative frame deltas, between frames 0 <= accumulator <
\* fixedDeltaTime; a frame that starts in PLAYING runs at most
\* floor((accumulator + min(delta, 250)) / fixedDeltaTime) fixed steps, never
\* more than 15, each advancing gameTime by exactly fixedDeltaTime; a frame
\* that starts in any other state leaves accumulator and gameTime alone.
C15_Accumulator ==
    /\ accumulator >= 0
    /\ ~frame.stepping => accumulator < FixedDeltaTime
    /\ frame.steps <= frame.budget
    /\ frame.steps <= 15
    /\ state # "menu" /\ frame.count > 0
          => /\ gameTime = frame.startTime + frame.steps * FixedDeltaTime
             /\ frame.startState # "playing"
                   => accumulator = frame.startAcc /\ frame.steps = 0

\* a stalled frame has run all of its 15 steps
C15_Witness ==
    /\ ~frame.stepping
    /\ frame.steps = 15

(***************************************************************************)
(* Aimed weapons and deferred spawns                                       *)
(*                                                                         *)
(* Directions are kept in thousandths, as in the projectiles.              *)
(***************************************************************************)
MaxShots == 2

\* "if (len > 0) { dx /= len; dy /= len } else { dx = 1; dy = 0 }"
normalizeOrRight(dx, dy) ==
    LET len == ISqrt(dx * dx + dy * dy)
    IN IF dx # 0 \/ dy # 0
       THEN <<TDiv(dx * 1000, Max2(len, 1)), TDiv(dy * 1000, Max2(len, 1))>>
       ELSE <<1000, 0>>

\* "dx /= len || 1; dy /= len || 1"
normalizeOrOne(dx, dy) ==
    LET len == ISqrt(dx * dx + dy * dy)
    IN <<TDiv(dx * 1000, Or0(len, 1)), TDiv(dy * 1000, Or0(len, 1))>>

\* the aimed weapons: how fire() picks its target, what it aims along without
\* one (facing: player.facingX / facingY; facingOr: facingX || 1, facingY || 0;
\* none: fire() returns), how it normalizes, cos and sin (thousandths) of the
\* spread angle of the outer one of two projectiles, the setTimeout delay per
\* projectile index (-1: spawned at once), whether the spawn call is
\* "projectileManager?.spawn", and the projectile's duration and size
AimedWeapon(id) ==
    CASE id = "knife" ->
            [target |-> "random", noTarget |-> "facingOr", zero |-> "right",
             cos |-> 999, sin |-> 40, delay |-> -1, safe |-> TRUE, ahead |-> 10,
             duration |-> 1500, size |-> 6]
      [] id = "magicWand" ->
            [target |-> "nearest", noTarget |-> "facing", zero |-> "right",
             cos |-> 997, sin |-> 75, delay |-> 80, safe |-> TRUE, ahead |-> 0,
             duration |-> 2000, size |-> 8]
      [] id = "fireball" ->
            [target |-> "nearest", noTarget |-> "facing", zero |-> "right",
             cos |-> 989, sin |-> 149, delay |-> 100, safe |-> TRUE, ahead |-> 0,
             duration |-> 2000, size |-> 12]
      [] id = "iceSpear" ->
            [target |-> "nearest", noTarget |-> "facing", zero |-> "right",
             cos |-> 995, sin |-> 100, delay |-> 50, safe |-> TRUE, ahead |-> 0,
             duration |-> 2000, size |-> 10]
      [] id = "soulEater" ->
            [target |-> "nearest", noTarget |-> "facing", zero |-> "right",
             cos |-> 992, sin |-> 125, delay |-> 80, safe |-> TRUE, ahead |-> 0,
             duration |-> 2000, size |-> 12]
      [] id = "bone" ->
            [target |-> "nearest", noTarget |-> "facingOr", zero |-> "one",
             cos |-> 989, sin |-> 149, delay |-> -1, safe |-> FALSE, ahead |-> 0,
             duration |-> WEAPONS("bone").duration, size |-> 12]
      [] id = "fireChain" ->
            [target |-> "nearest", noTarget |-> "none", zero |-> "one",
             cos |-> 995, sin |-> 100, delay |-> -1, safe |-> FALSE, ahead |-> 0,
             duration |-> 1500, size |-> 10]

AimedWeaponIds ==
    {"knife", "magicWand", "fireball", "iceSpear", "soulEater", "bone", "fireChain"}

\* the targets fire() may get: an enemy id, or 0 for none
Targets(w, es, hash, pl) ==
    IF w.target = "nearest"
    THEN {getNearestEnemy(es, pl.x, pl.y)}
    ELSE IF getEnemiesNear(hash, es, pl.x, pl.y, 500) = <<>>
         THEN {0}
         ELSE Range(getEnemiesNear(hash, es, pl.x, pl.y, 500))

\* the direction of projectile i of n before the spread
Aim(w, es, pl, target) ==
    LET Normalized(dx, dy) ==
            IF w.zero = "right" THEN normalizeOrRight(dx, dy) ELSE normalizeOrOne(dx, dy)
    IN IF target # 0
       THEN Normalized(EnemyById(es, target).x - pl.x, EnemyById(es, target).y - pl.y)
       ELSE IF w.noTarget = "facingOr"
            THEN Normalized(Or0(pl.facingX, 1), pl.facingY)
            ELSE Normalized(pl.facingX, pl.facingY)

\* "spreadAngle = (i - (this.projectiles - 1) / 2) * k" and the rotation by it,
\* for this.projectiles = n in 1..2
Spread(w, d, i, n) ==
    IF n = 1 THEN d
    ELSE LET sin == IF i = 0 THEN 0 - w.sin ELSE w.sin
         IN <<TDiv(d[1] * w.cos - d[2] * sin, 1000), TDiv(d[1] * sin + d[2] * w.cos, 1000)>>

\* the options object of the spawn call, but for x and y
AimedOptions(id, w, d) ==
    [NoOptions EXCEPT !.dx = d[1], !.dy = d[2], !.speed = 300, !.damage = 10,
                      !.pierce = 1, !.duration = w.duration, !.size = w.size,
                      !.knockback = 0,
                      !.pattern = IF id = "bone" THEN "boomerang" ELSE "linear",
                      !.returnTime = IF id = "bone" THEN w.duration \div 2 ELSE 0,
                      !.owner = id = "bone",
                      !.onHit = IF id = "fireball" THEN "splash" ELSE "none",
                      !.splashRadius = IF id = "fireball" THEN 60 ELSE 0,
                      !.onExpire = id = "fireball"]

RECURSIVE SpawnAll(_, _, _, _, _)
\* ProjectileManager.spawn for each options object of shots
SpawnAll(ps, counter, shots, i, now) ==
    IF i > Len(shots) THEN ps
    ELSE SpawnAll(Append(IF Len(ps) >= maxProjectiles THEN Tail(ps) ELSE ps,
                         [spawn(counter + i, shots[i]) EXCEPT !.born = now]),
                  counter, shots, i + 1, now)

\* fire() of an aimed weapon with this.projectiles = n: the n spawn calls,
\* made at once or handed to setTimeout
AimedFire ==
    /\ state = "playing"
    /\ ~frame.stepping
    /\ projCounter + Cardinality(timers) < MaxShots
    /\ \E id \in AimedWeaponIds, n \in 1..2 :
          \E target \in Targets(AimedWeapon(id), enemies, spatialHash, player) :
             LET w == AimedWeapon(id)
                 Shot(i) ==
                    LET d == Spread(w, Aim(w, enemies, player, target), i, n)
                    IN [AimedOptions(id, w, d)
                          EXCEPT !.x = player.x + TDiv(d[1] * w.ahead, 1000),
                                 !.y = player.y + TDiv(d[2] * w.ahead, 1000)]
             IN IF target = 0 /\ w.noTarget = "none"
                THEN UNCHANGED <<projectiles, projCounter, timers>>
                ELSE IF w.delay < 0
                     THEN /\ projectiles' = SpawnAll(projectiles, projCounter,
                                                     [i \in 1..n |-> Shot(i - 1)], 1, gameTime)
                          /\ projCounter' = projCounter + n
                          /\ UNCHANGED timers
                     ELSE /\ timers' = timers \cup
                               { [kind |-> id, fire |-> projCounter + Cardinality(timers),
                                  i |-> i, run |-> run, safe |-> w.safe,
                                  options |-> Shot(i)] : i \in 0..(n - 1) }
                          /\ UNCHANGED <<projectiles, projCounter>>
    /\ UNCHANGED <<state, gameTime, killCount, player, enemies, enemyIdCounter,
                   spawnTimer, spatialHash, bossSpawns, contactLog, hitLog,
                   expiredLog, passives, owner, weapons, chainHits, chainFires, beam,
                   game, accumulator, frame, run, strays>>

trailSteps == 5                 \* ShadowDagger.createShadowTrail: steps

\* ShadowDagger.fire() with this.projectiles = 1: a strike on an enemy of the
\* registry and the five deferred spawns of createShadowTrail
DaggerFire ==
    /\ state = "playing"
    /\ ~frame.stepping
    /\ projCounter + Cardinality(timers) < MaxShots
    /\ enemies # <<>>
    /\ \E k \in DOMAIN enemies :
          LET Effect(i) ==
                 [NoOptions EXCEPT
                    !.x = player.x + TDiv((enemies[k].x - player.x) * i, trailSteps),
                    !.y = player.y + TDiv((enemies[k].y - player.y) * i, trailSteps),
                    !.dx = 0, !.dy = 0, !.speed = 0, !.damage = 0, !.pierce = 0,
                    !.duration = 200, !.size = 10, !.knockback = 0, !.type = "effect"]
          IN /\ projectiles' =
                   SpawnAll(projectiles, projCounter,
                            << [NoOptions EXCEPT !.x = enemies[k].x, !.y = enemies[k].y,
                                                 !.dx = 0, !.dy = 0, !.speed = 0,
                                                 !.damage = 10, !.pierce = 1,
                                                 !.duration = 200, !.size = 20,
                                                 !.knockback = 0, !.type = "strike"] >>,
                            1, gameTime)
             /\ timers' = timers \cup
                   { [kind |-> "shadowTrail", fire |-> projCounter + Cardinality(timers),
                      i |-> i, run |-> run, safe |-> FALSE, options |-> Effect(i)] :
                     i \in 0..(trailSteps - 1) }
    /\ projCounter' = projCounter + 1
    /\ UNCHANGED <<state, gameTime, killCount, player, enemies, enemyIdCounter,
                   spawnTimer, spatialHash, bossSpawns, contactLog, hitLog,
                   expiredLog, passives, owner, weapons, chainHits, chainFires, beam,
                   game, accumulator, frame, run, strays>>

\* a callback handed to setTimeout by fire() runs: the timers of one fire()
\* run in the order of their delays.  With the managers null (state MENU)
\* "projectileManager?.spawn(...)" does nothing and "projectileManager.spawn(...)"
\* throws; otherwise the projectile goes into the registry of whatever run
\* is current.  strays keeps what each callback did.
\* timers whose callback does not spawn a projectile: the level-up of
\* onMiniBossDefeated, the strikes of Lightning and Hellfire
StrikeKinds == {"lightning", "hellfireWarning", "hellfire"}

TimerFires ==
    /\ ~frame.stepping
    /\ \E t \in timers :
          /\ t.kind # "levelUp"
          /\ t.kind \notin StrikeKinds
          /\ \A u \in timers : u.fire = t.fire => u.i >= t.i
          /\ timers' = timers \ {t}
          /\ IF state = "menu"
             THEN /\ UNCHANGED <<projectiles, projCounter>>
                  /\ strays' = strays \cup
                        {[kind |-> t.kind, fire |-> t.fire, i |-> t.i, run |-> t.run,
                          ranIn |-> run, inMenu |-> TRUE,
                          outcome |-> IF t.safe THEN "skipped" ELSE "threw"]}
             ELSE /\ projectiles' = SpawnAll(projectiles, projCounter, <<t.options>>, 1,
                                             gameTime)
                  /\ projCounter' = projCounter + 1
                  /\ strays' = strays \cup
                        {[kind |-> t.kind, fire |-> t.fire, i |-> t.i, run |-> t.run,
                          ranIn |-> run, inMenu |-> FALSE, outcome |-> "spawned"]}
    /\ UNCHANGED <<state, gameTime, killCount, player, enemies, enemyIdCounter,
                   spawnTimer, spatialHash, bossSpawns, contactLog, hitLog,
                   expiredLog, passives, owner, weapons, chainHits, chainFires, beam,
                   game, accumulator, frame, run>>

\* enemies around the player (2000, 2000): none, one to the right, one along
\* a 3-4-5 diagonal, one standing exactly on the player
AimLayouts ==
    { <<>>,
      << Regular(1, 2021, 2000, 50, 0, 60) >>,
      << Regular(1, 2030, 2040, 50, 0, 60), Regular(2, 1940, 2080, 50, 0, 60) >>,
      << Regular(1, 2000, 2000, 50, 0, 60) >> }

InitFire ==
    /\ state = "playing"
    /\ gameTime = 0
    /\ killCount = 0
    /\ player = NewPlayer
    /\ enemies \in AimLayouts
    /\ enemyIdCounter = Len(enemies)
    /\ spawnTimer = baseSpawnInterval
    /\ spatialHash = HashOf(enemies, Len(enemies))
    /\ projectiles = <<>>
    /\ projCounter = 0
    /\ bossSpawns = 0
    /\ contactLog = NoContact
    /\ hitLog = {}
    /\ expiredLog = {}
    /\ Quiet
    /\ Calm

NextFire == AimedFire \/ DaggerFire \/ TimerFires \/ QuitToMenu \/ StartGame

SpecFire == InitFire /\ [][NextFire]_vars

(***************************************************************************)
(* C13: deferred spawns that outlive their run                             *)
(***************************************************************************)
\* C13: a callback that fire() handed to setTimeout and that runs after
\* quitToMenu() or after a later startGame() does nothing: it neither throws
\* nor spawns a projectile.
C13_StaleCallbacksAreNoOps ==
    \A s \in strays : s.inMenu \/ s.ranIn # s.run => s.outcome = "skipped"

(***************************************************************************)
(* C19: aimed weapons fire along a unit vector                             *)
(***************************************************************************)
\* C19: every projectile of an aimed weapon (MagicWand, Fireball, IceSpear,
\* SoulEater, Knife, Bone, FireChain) has a direction of length 1 (here
\* within half a percent), a zero-length aim giving (1, 0) and never (0, 0).
C19_UnitDirection ==
    \A i \in DOMAIN projectiles :
       projectiles[i].type = "projectile"
          => Abs(projectiles[i].dx * projectiles[i].dx
                   + projectiles[i].dy * projectiles[i].dy - 1000 * 1000) <= 10 * 1000

C16_NaNRecovery ==
    \A i \in DOMAIN enemies :
       /\ enemies[i].x # NaN /\ enemies[i].y # NaN
       /\ enemies[i].recovered
             => /\ enemies[i].x = enemies[i].prevX /\ enemies[i].y = enemies[i].prevY
                /\ enemies[i].knockbackX = 0 /\ enemies[i].knockbackY = 0

(***************************************************************************)
(* C17: the terminal states                                                *)
(***************************************************************************)
\* C17: once the state is GAME_OVER or VICTORY it changes only by startGame()
\* (a new run) or quitToMenu() (MENU): no further update, timer or mini-boss
\* reward callback takes the game to PLAYING or LEVEL_UP.
C17_TerminalStates ==
    [][(state = "gameOver" \/ state = "victory")
          => (state' = state \/ state' = "menu" \/ run' # run)]_vars

(***************************************************************************)
(* C18: difficulty tiers                                                   *)
(***************************************************************************)
\* C18: difficultyTier >= 1 only once the boss has been defeated, and the gold
\* multiplier is 1 until then.
C18_TierNeedsBoss ==
    /\ game.difficultyTier >= 1 => game.bossDefeated
    /\ ~game.bossDefeated => game.goldMultiplier = 100

\* ---------------------------------------------------------------------------
\* C11: once damageEnemy has resolved, no enemy has a negative hp: lethal
\* damage leaves hp clamped at 0 before the death resolution runs.
C11_HpNeverNegative ==
    \A i \in DOMAIN enemies : enemies[i].hp >= 0

MaxPools == 1
MaxGroundTicks == 26

poolTickRate == 200             \* HolyWater.fire: tickRate
poolBaseSize == 30              \* HolyWater.fire: size 30 * this.area

\* the random angle (as a unit vector in thousandths) and distance of one
\* pool: distance = 50 + Math.random() * 150
PoolThrows ==
    { [dx |-> 1000, dy |-> 0, distance |-> 50],
      [dx |-> 600, dy |-> 800, distance |-> 100],
      [dx |-> -600, dy |-> -800, distance |-> 50] }

\* what HolyWater.fire passes to spawn
HolyWaterOptions(pl, t) ==
    [NoOptions EXCEPT !.x = pl.x, !.y = pl.y, !.dx = t.dx, !.dy = t.dy,
                      !.hasTarget = TRUE,
                      !.targetX = pl.x + TDiv(t.dx * t.distance, 1000),
                      !.targetY = pl.y + TDiv(t.dy * t.distance, 1000),
                      !.speed = WEAPONS("holyWater").baseSpeed,
                      !.damage = WEAPONS("holyWater").baseDamage,
                      !.pierce = WEAPONS("holyWater").pierce,
                      !.duration = WEAPONS("holyWater").duration,
                      !.size = TDiv(poolBaseSize * WEAPONS("holyWater").baseArea, 10),
                      !.knockback = 0,
                      !.type = "ground", !.tickRate = poolTickRate]

\* the callback HolyWater.fire hands to setTimeout: one pool is spawned
HolyWaterSpawn ==
    /\ state = "playing"
    /\ projCounter < MaxPools
    /\ \E t \in PoolThrows :
          /\ projectiles' =
                Append(IF Len(projectiles) >= maxProjectiles THEN Tail(projectiles)
                       ELSE projectiles,
                       [spawn(projCounter + 1, HolyWaterOptions(player, t))
                           EXCEPT !.born = gameTime])
          /\ projCounter' = projCounter + 1
    /\ UNCHANGED <<state, gameTime, killCount, player, enemies, enemyIdCounter,
                   spawnTimer, spatialHash, bossSpawns, contactLog, hitLog,
                   expiredLog, passives, owner, weapons, chainHits,
                   chainFires, beam, game, accumulator, frame, run, timers, strays>>

\* one fixed step of Game.gameLoop with pools on the ground
GroundTick ==
    /\ state = "playing"
    /\ gameTime < MaxGroundTicks * FixedDeltaTime
    /\ Tick

\* enemies walking towards the player through the places pools land on
GroundLayouts ==
    { << Regular(1, 2021, 2000, 50, 0, 60) >>,
      << Regular(1, 2030, 2040, 50, 50, 40), Regular(2, 2040, 2000, 50, 50, 40) >>,
      << Regular(1, 2090, 2080, 50, 0, 60), Regular(2, 1975, 1960, 50, 50, 40) >> }

InitGround ==
    /\ state = "playing"
    /\ gameTime = 0
    /\ killCount = 0
    /\ player = NewPlayer
    /\ enemies \in GroundLayouts
    /\ enemyIdCounter = Len(enemies)
    /\ spawnTimer = baseSpawnInterval
    /\ spatialHash = HashOf(enemies, Len(enemies))
    /\ projectiles = <<>>
    /\ projCounter = 0
    /\ bossSpawns = 0
    /\ contactLog = NoContact
    /\ hitLog = {}
    /\ expiredLog = {}
    /\ Quiet
    /\ Calm

NextGround == HolyWaterSpawn \/ GroundTick

SpecGround == InitGround /\ [][NextGround]_vars

\* the hits of one ground projectile: none before it landed, it lies exactly
\* on its target once landed, and two hits of one enemy are a tick interval apart
GroundHits(p) ==
    /\ \A k \in DOMAIN p.hits : p.hits[k].landed
    /\ p.landed /\ p.hasTarget => p.x = p.targetX /\ p.y = p.targetY
    /\ p.tickRate > 0 =>
          \A j, k \in DOMAIN p.hits :
             j < k /\ p.hits[j].enemy = p.hits[k].enemy
                => p.hits[k].age - p.hits[j].age >= p.tickRate

\* p before and q after one step: the hit-set lost an entry or the tick moved
Cleared(p, q) == q.lastTick # p.lastTick \/ ~(p.hitEnemies \subseteq q.hitEnemies)

\* ---------------------------------------------------------------------------
\* C20: a ground-type projectile damages no enemy before its landed flag is
\* set, and it lands by snapping exactly onto its target point; once landed,
\* with tickRate T > 0, it damages one enemy at most once per T ms of its
\* age, and its hit-set is cleared only when a further T ms have passed since
\* the last tick, never on every step.
C20_GroundTicks ==
    [][ /\ \A q \in EverSpawned' : q.type = "ground" => GroundHits(q)
        /\ \A p \in Range(projectiles) : \A q \in EverSpawned' :
              (p.type = "ground" /\ p.tickRate > 0 /\ q.id = p.id /\ Cleared(p, q))
                 => (q.landed /\ q.lastTick - p.lastTick >= p.tickRate) ]_vars

\* a landed pool, lying on its target, that has damaged the same enemy in two ticks
C20_Witness ==
    \E i \in DOMAIN projectiles :
       /\ projectiles[i].type = "ground"
       /\ projectiles[i].landed
       /\ projectiles[i].x = projectiles[i].targetX
       /\ \E j, k \in DOMAIN projectiles[i].hits :
             /\ j < k
             /\ projectiles[i].hits[j].enemy = projectiles[i].hits[k].enemy

\* squared distance between two enemies
Apart(a, b) == (a.x - b.x) * (a.x - b.x) + (a.y - b.y) * (a.y - b.y)

\* the hops k -> k + 1 of the first chain of the last activation, when no
\* enemy has died: every enemy was live at each of them
FirstChainHops ==
    { k \in 1..(Len(chainHits) - 1) :
         /\ \A i \in DOMAIN enemies : ~enemies[i].dead
         /\ \A i, j \in 1..(k + 1) : i # j => chainHits[i] # chainHits[j] }

\* ---------------------------------------------------------------------------
\* C21: in a chain-lightning activation every hop after the first goes to the
\* nearest live, not-yet-hit enemy within the chain range of the current
\* target: no fresh live enemy is closer to the current target than the one
\* the chain jumped to, and the chain makes at most chainCount hops.
C21_NearestHop ==
    \A k \in FirstChainHops :
       LET cur == EnemyById(enemies, chainHits[k])
           nxt == EnemyById(enemies, chainHits[k + 1])
       IN /\ Apart(cur, nxt) <= chainRange * chainRange
          /\ \A i \in DOMAIN enemies :
                enemies[i].id \notin { chainHits[j] : j \in 1..k }
                   => Apart(cur, nxt) <= Apart(cur, enemies[i])

(***************************************************************************)
(* Revivals                                                                *)
(***************************************************************************)
MaxReviveTicks == 4

\* revivals bought in the shop: powerups.revival of the save
ShopRevivals == {0, 1, 2}

\* one fixed step of Game.gameLoop with enemies at the player
ReviveTick ==
    /\ state = "playing"
    /\ gameTime < MaxReviveTicks * FixedDeltaTime
    /\ Tick

\* a run in which the player, hurt before or not, is about to be touched
InitRevive ==
    /\ state = "playing"
    /\ gameTime = 0
    /\ killCount = 0
    /\ \E revival \in ShopRevivals, hp \in {10, baseMaxHp} :
          player = [PlayerConstructor(revival) EXCEPT !.hp = hp]
    /\ enemies \in Layouts
    /\ enemyIdCounter = Len(enemies)
    /\ spawnTimer = baseSpawnInterval
    /\ spatialHash = HashOf(enemies, Len(enemies))
    /\ projectiles = <<>>
    /\ projCounter = 0
    /\ bossSpawns = 0
    /\ contactLog = NoContact
    /\ hitLog = {}
    /\ expiredLog = {}
    /\ Quiet
    /\ Calm

NextRevive == ReviveTick

SpecRevive == InitRevive /\ [][NextRevive]_vars

\* ---------------------------------------------------------------------------
\* C22: a player constructed with powerups.revival >= 1 who takes lethal
\* damage is revived instead of ending the run: gameOver() has been called
\* only when every revival bought has been used.
C22_RevivalBeforeGameOver ==
    state = "gameOver" => player.revivalsUsed >= player.shopRevivals

\* a projectile that the last collision pass has run its hit loop for and
\* that can still hit: updated at least once, not expired, not exhausted, and
\* not a ground effect waiting to land or to tick
StillHitting(p) ==
    /\ p.age > 0
    /\ p.age < p.duration
    /\ p.exhaustedAt = -1
    /\ p.tickRate = 0
    /\ ~(p.type = "ground" /\ ~p.landed)

\* ---------------------------------------------------------------------------
\* C23: projectile-versus-enemy resolution has no false negatives: after a
\* collision pass, every live enemy whose circle overlaps the shape of a
\* projectile that can still hit has been hit by it, for every enemy radius,
\* bosses included.
C23_NoMissedOverlap ==
    gameTime > 0 =>
       \A i \in DOMAIN projectiles : \A j \in DOMAIN enemies :
          (/\ StillHitting(projectiles[i])
           /\ ~enemies[j].dead
           /\ Overlaps(projectiles[i], enemies[j]))
             => enemies[j].id \in projectiles[i].hitEnemies

\* ---------------------------------------------------------------------------
\* C24: the enemy registry never holds more than maxEnemies enemies: no wave,
\* boss or mini-boss spawn pushes the population above the cap.
C24_PopulationCap == Len(enemies) <= maxEnemies

\* ---------------------------------------------------------------------------
\* C25: Game.update executes only while the state is PLAYING: once an update
\* inside a frame has changed the state, no step of the same run advances
\* gameTime, the enemies, the projectiles or the player until play resumes.
C25_UpdateOnlyWhilePlaying ==
    [][(state # "playing" /\ run' = run /\ state' # "menu")
          => (/\ gameTime' = gameTime
              /\ enemies' = enemies
              /\ projectiles' = projectiles
              /\ player' = player)]_vars

(***************************************************************************)
(* The constructed portal                                                  *)
(***************************************************************************)
\* the last moments of the boss fight: the boss nearly dead at several
\* distances from the player, a shot on its way; or the portal already
\* constructed where the boss died
PortalScenarios ==
    { [boss |-> << Seasoned(spawnBoss(1, BossData(x, 2000)), 15) >>,
       game |-> [NewGame EXCEPT !.sparkSpawned = TRUE, !.portalSparkTouched = TRUE,
                                !.currentBoss = TRUE],
       projectiles |-> << [spawn(1, [NoOptions EXCEPT !.duration = 2000])
                              EXCEPT !.born = bossSpawnTime + FixedDeltaTime] >>] :
         x \in {2050, 2072, 2110} }
    \cup
    { [boss |-> <<>>,
       game |-> [NewGame EXCEPT !.sparkSpawned = TRUE, !.portalSparkTouched = TRUE,
                                !.bossDefeated = TRUE, !.portal = TRUE,
                                !.portalX = x, !.portalY = 2000,
                                !.goldMultiplier = difficultyTiers[1].goldMult],
       projectiles |-> <<>>] :
         x \in {2050, 2110} }

InitPortal ==
    /\ \E sc \in PortalScenarios :
          /\ enemies = sc.boss
          /\ projectiles = sc.projectiles
          /\ game = sc.game
    /\ gameTime = bossSpawnTime + FixedDeltaTime
    /\ frame = [Idle EXCEPT !.startTime = gameTime]
    /\ spawnTimer = baseSpawnInterval
    /\ player = NewPlayer
    /\ state = "playing"
    /\ killCount = 0
    /\ enemyIdCounter = Len(enemies)
    /\ spatialHash = HashOf(enemies, Len(enemies))
    /\ projCounter = Len(projectiles)
    /\ bossSpawns = 0
    /\ contactLog = NoContact
    /\ hitLog = {}
    /\ expiredLog = {}
    /\ Quiet
    /\ accumulator = 0
    /\ run = 1
    /\ timers = {}
    /\ strays = {}

NextPortal == GameLoop \/ FrameStep

SpecPortal == InitPortal /\ [][NextPortal]_vars

\* ---------------------------------------------------------------------------
\* C26: victory is triggered at most once per run: Game.victory() has run at
\* most once, so the victory bonus has been added once and the run has been
\* written to the save once, however many fixed steps a frame consumes.
C26_VictoryOnce ==
    /\ game.victories <= 1
    /\ game.coinsCollected <= victoryCoinBonus

\* ---------------------------------------------------------------------------
\* C27: a projectile's onExpire callback is invoked at most once in its life,
\* whether it expires by age, by pierce exhaustion or by a boomerang's return.
C27_ExpireOnce ==
    \A p \in EverSpawned : p.expireCalls <= 1

(***************************************************************************)
(* Level-ups                                                               *)
(***************************************************************************)
\* Game.resume(): only a paused game resumes
resume(st) == IF st = "paused" THEN "playing" ELSE st

\* Player.getUpgradeOptions: the upgrades the weighted draw can return, those
\* of items below their maxLevel and of items not yet held
upgradeOptions == { upgrade \in Upgrades : Offered(upgrade) }

\* player.levelUp() on collected experience: Game.triggerLevelUp() and its
\* onLevelUp callback UIClass.showLevelUp, which without options calls
\* game.resume() and returns
TriggerLevelUp ==
    /\ state = "playing"
    /\ state' = IF upgradeOptions = {} THEN resume("levelUp") ELSE "levelUp"
    /\ UNCHANGED <<gameTime, killCount, player, enemies, enemyIdCounter,
                   spawnTimer, spatialHash, projectiles, projCounter, bossSpawns,
                   contactLog, hitLog, expiredLog, passives, owner, weapons,
                   chainHits, chainFires, beam, game, accumulator, frame, run,
                   timers, strays>>

\* a click on one of the cards showLevelUp has drawn: Game.selectUpgrade(upgrade)
ChooseUpgrade ==
    /\ state = "levelUp"
    /\ \E upgrade \in upgradeOptions :
          LET r == applyUpgrade([weapons |-> weapons, passives |-> passives,
                                 owner |-> owner], upgrade)
          IN /\ weapons' = r.weapons
             /\ passives' = r.passives
             /\ owner' = r.owner
    /\ state' = "playing"
    /\ UNCHANGED <<gameTime, killCount, player, enemies, enemyIdCounter,
                   spawnTimer, spatialHash, projectiles, projCounter, bossSpawns,
                   contactLog, hitLog, expiredLog, chainHits, chainFires, beam, game,
                   accumulator, frame, run, timers, strays>>

InitLevel == InitWeapon

NextLevel == TriggerLevelUp \/ ChooseUpgrade

SpecLevel == InitLevel /\ [][NextLevel]_vars

\* ---------------------------------------------------------------------------
\* C28: the run never stays frozen in LEVEL_UP: whenever the state is
\* LEVEL_UP an upgrade can be selected to resume play; when no upgrade option
\* remains the level-up has been skipped and the state is PLAYING again.
C28_LevelUpCanEnd ==
    state = "levelUp" => upgradeOptions # {}

(***************************************************************************)
(* The mini-boss thresholds                                                *)
(***************************************************************************)
\* a mini-boss that has walked towards the player since its threshold
Walked(id, y) ==
    LET e == spawnMiniBoss(id, MiniBossData(2000, y))
    IN Seasoned(e, e.hp)

\* runs at the two thresholds: one step before each, and 600 ms into each
\* one-second window with the window's mini-boss walking in
ThresholdScenarios ==
    { [time |-> 17647 * FixedDeltaTime, miniBossCount |-> 0, enemies |-> <<>>],
      [time |-> 17682 * FixedDeltaTime, miniBossCount |-> 1,
       enemies |-> << Walked(1, 2364) >>],
      [time |-> 35294 * FixedDeltaTime, miniBossCount |-> 1,
       enemies |-> << Walked(1, 2100) >>],
      [time |-> 35330 * FixedDeltaTime, miniBossCount |-> 2,
       enemies |-> << Walked(1, 2100), Walked(2, 2364) >>] }

InitThreshold ==
    /\ \E sc \in ThresholdScenarios :
          /\ gameTime = sc.time
          /\ enemies = sc.enemies
          /\ game = [NewGame EXCEPT !.miniBossCount = sc.miniBossCount]
          /\ frame = [Idle EXCEPT !.startTime = sc.time]
    /\ spawnTimer = baseSpawnInterval
    /\ player = NewPlayer
    /\ projectiles = <<>>
    /\ state = "playing"
    /\ killCount = 0
    /\ enemyIdCounter = Len(enemies)
    /\ spatialHash = HashOf(enemies, Len(enemies))
    /\ projCounter = 0
    /\ bossSpawns = 0
    /\ contactLog = NoContact
    /\ hitLog = {}
    /\ expiredLog = {}
    /\ Quiet
    /\ accumulator = 0
    /\ run = 1
    /\ timers = {}
    /\ strays = {}

NextThreshold == GameLoop \/ FrameStep \/ Pause \/ Resume

SpecThreshold == InitThreshold /\ [][NextThreshold]_vars

\* mini-bosses in a registry
MiniBosses(es) == Cardinality({ i \in DOMAIN es : es[i].isMiniBoss })

\* ---------------------------------------------------------------------------
\* C29: exactly one mini-boss is spawned by the step in which the countdown
\* first reaches 10:00 and exactly one by the step in which it first reaches
\* 5:00, whatever the frame deltas; no other step spawns one, so no threshold
\* is skipped or fired twice and miniBossCount never exceeds 2.
C29_MiniBossThresholds ==
    [][LET Crossed(t) == bossSpawnTime - gameTime > t /\ bossSpawnTime - gameTime' <= t
           n == IF Crossed(600000) \/ Crossed(300000) THEN 1 ELSE 0
       IN /\ game'.miniBossCount = game.miniBossCount + n
          /\ MiniBosses(enemies') = MiniBosses(enemies) + n
          /\ game'.miniBossCount <= 2]_vars

\* the step that reached 5:00 has spawned the second mini-boss
C29_Witness ==
    /\ game.miniBossCount = 2
    /\ MiniBosses(enemies) = 2
    /\ frame.steps >= 1
    /\ bossSpawnTime - gameTime <= 300000
    /\ bossSpawnTime - gameTime > 300000 - FixedDeltaTime

(***************************************************************************)
(* Delayed strikes: Lightning and Hellfire                                 *)
(***************************************************************************)
hellfireBlast == 40             \* Hellfire.fire: dist < 40 * this.area

\* the callbacks one fire() hands to setTimeout are numbered below zero, the
\* deferred spawns of the aimed weapons from zero up
StrikeId == 0 - (1 + projCounter + Cardinality(timers) + Cardinality(strays))

\* the first this.projectiles enemies of the shuffled getEnemiesInRange
Picks(ids, n) ==
    { s \in [1..Min2(n, Cardinality(ids)) -> ids] :
         \A i, j \in DOMAIN s : i # j => s[i] # s[j] }

\* Lightning.fire(): one timer per target, delay i * 50
LightningFire ==
    /\ state = "playing"
    /\ ~frame.stepping
    /\ projCounter + Cardinality(timers) + Cardinality(strays) < MaxShots
    /\ LET near == getEnemiesNear(spatialHash, enemies, player.x, player.y,
                                  TDiv(WEAPONS("lightning").baseRange
                                          * WEAPONS("lightning").baseArea, 10))
       IN /\ near # <<>>
          /\ \E n \in 1..WEAPONS("lightning").baseProjectiles :
                \E targets \in Picks(Range(near), n) :
                   timers' = timers \cup
                      { [kind |-> "lightning", fire |-> StrikeId, i |-> i - 1,
                         run |-> run, enemy |-> targets[i],
                         damage |-> WEAPONS("lightning").baseDamage] :
                        i \in DOMAIN targets }
    /\ UNCHANGED <<state, gameTime, killCount, player, enemies, enemyIdCounter,
                   spawnTimer, spatialHash, projectiles, projCounter, bossSpawns,
                   contactLog, hitLog, expiredLog, passives, owner, weapons,
                   chainHits, chainFires, beam, game, accumulator, frame, run, strays>>

\* the callback of Lightning.fire: "if (!enemy.dead) enemy.takeDamage(...)";
\* it does not look at this.game.state
LightningStrike ==
    /\ ~frame.stepping
    /\ \E t \in timers :
          /\ t.kind = "lightning"
          /\ \A u \in timers : u.fire = t.fire => u.i >= t.i
          /\ timers' = timers \ {t}
          /\ LET g0 == [enemies |-> enemies, killCount |-> killCount, state |-> state]
                 live == ~EnemyById(enemies, t.enemy).dead
                 g == IF live THEN damageEnemy(g0, t.enemy, t.damage, player.curse) ELSE g0
             IN /\ enemies' = g.enemies
                /\ killCount' = g.killCount
                /\ state' = g.state
                /\ strays' = strays \cup
                      {[kind |-> t.kind, fire |-> t.fire, i |-> t.i, run |-> t.run,
                        ranIn |-> run, inMenu |-> FALSE, during |-> state,
                        outcome |-> IF live THEN "damaged" ELSE "skipped"]}
    /\ UNCHANGED <<gameTime, player, enemyIdCounter, spawnTimer, spatialHash,
                   projectiles, projCounter, bossSpawns, contactLog, hitLog,
                   expiredLog, passives, owner, weapons, chainHits, chainFires, beam,
                   game, accumulator, frame, run>>

\* the random angle and distance of one Hellfire strike, as an offset from
\* the player
HellfireOffsets == { <<21, 0>>, <<30, 40>>, <<-200, 0>> }

\* Hellfire.fire(): one timer per strike, delay i * 100
HellfireFire ==
    /\ state = "playing"
    /\ ~frame.stepping
    /\ projCounter + Cardinality(timers) + Cardinality(strays) < MaxShots
    /\ \E n \in 1..WEAPONS("hellfire").baseProjectiles :
          \E offs \in [0..(n - 1) -> HellfireOffsets] :
             timers' = timers \cup
                { [kind |-> "hellfireWarning", fire |-> StrikeId, i |-> i, run |-> run,
                   targetX |-> player.x + offs[i][1], targetY |-> player.y + offs[i][2],
                   damage |-> WEAPONS("hellfire").baseDamage] : i \in 0..(n - 1) }
    /\ UNCHANGED <<state, gameTime, killCount, player, enemies, enemyIdCounter,
                   spawnTimer, spatialHash, projectiles, projCounter, bossSpawns,
                   contactLog, hitLog, expiredLog, passives, owner, weapons,
                   chainHits, chainFires, beam, game, accumulator, frame, run, strays>>

\* the outer callback of Hellfire.fire: the warning ring, and the strike
\* handed to setTimeout with delay 300
HellfireWarning ==
    /\ ~frame.stepping
    /\ \E t \in timers :
          /\ t.kind = "hellfireWarning"
          /\ \A u \in timers : u.fire = t.fire /\ u.kind = t.kind => u.i >= t.i
          /\ timers' = (timers \ {t}) \cup {[t EXCEPT !.kind = "hellfire"]}
    /\ UNCHANGED <<state, gameTime, killCount, player, enemies, enemyIdCounter,
                   spawnTimer, spatialHash, projectiles, projCounter, bossSpawns,
                   contactLog, hitLog, expiredLog, passives, owner, weapons,
                   chainHits, chainFires, beam, game, accumulator, frame, run, strays>>

RECURSIVE BlastLoop(_, _, _, _, _)
\* "for (const enemy of enemies)" of the strike: every enemy of the query
\* within 40 * area of the target takes the damage
BlastLoop(g, near, i, t, curse) ==
    IF i > Len(near) THEN g
    ELSE LET e == EnemyById(g.enemies, near[i])
             dist2 == (e.x - t.targetX) * (e.x - t.targetX)
                         + (e.y - t.targetY) * (e.y - t.targetY)
             reach == TDiv(hellfireBlast * WEAPONS("hellfire").baseArea, 10)
         IN BlastLoop(IF dist2 < reach * reach
                      THEN damageEnemy(g, near[i], t.damage, curse) ELSE g,
                      near, i + 1, t, curse)

\* the inner callback of Hellfire.fire; the warnings of one fire() (delays
\* below 300) have all run before its first strike.  It does not look at
\* this.game.state
HellfireStrike ==
    /\ ~frame.stepping
    /\ \E t \in timers :
          /\ t.kind = "hellfire"
          /\ \A u \in timers : u.fire = t.fire => u.kind = t.kind /\ u.i >= t.i
          /\ timers' = timers \ {t}
          /\ LET g == BlastLoop([enemies |-> enemies, killCount |-> killCount,
                                 state |-> state],
                                getEnemiesNear(spatialHash, enemies, player.x, player.y,
                                               TDiv(WEAPONS("hellfire").baseRange
                                                       * WEAPONS("hellfire").baseArea, 10)),
                                1, t, player.curse)
             IN /\ enemies' = g.enemies
                /\ killCount' = g.killCount
                /\ state' = g.state
                /\ strays' = strays \cup
                      {[kind |-> t.kind, fire |-> t.fire, i |-> t.i, run |-> t.run,
                        ranIn |-> run, inMenu |-> FALSE, during |-> state,
                        outcome |-> IF g.enemies # enemies THEN "damaged" ELSE "skipped"]}
    /\ UNCHANGED <<gameTime, player, enemyIdCounter, spawnTimer, spatialHash,
                   projectiles, projCounter, bossSpawns, contactLog, hitLog,
                   expiredLog, passives, owner, weapons, chainHits, chainFires, beam,
                   game, accumulator, frame, run>>

InitStrike == InitFire

NextStrike ==
    \/ LightningFire \/ LightningStrike
    \/ HellfireFire \/ HellfireWarning \/ HellfireStrike
    \/ AimedFire \/ TimerFires
    \/ Pause \/ Resume

SpecStrike == InitStrike /\ [][NextStrike]_vars

(***************************************************************************)
(* C30: nothing changes outside a simulation tick                          *)
(***************************************************************************)
\* C30: while the state is PAUSED, LEVEL_UP, CHEST, GAME_OVER or VICTORY no
\* step changes an enemy (hp, death), the kill count or the projectile
\* registry, also not a Lightning strike, a Hellfire strike or a staggered
\* spawn that was scheduled while the run was still in play.
C30_FrozenOutsideTicks ==
    [][(state = "paused" \/ state = "levelUp" \/ state = "chest"
           \/ state = "gameOver" \/ state = "victory")
          => (enemies' = enemies /\ killCount' = killCount
                 /\ projectiles' = projectiles)]_vars

====
